---- MODULE Spec2Model ----
(***************************************************************************)
(* Model of the cloud test runner: the Action Interpreter                  *)
(* (AutomationService.performAction), the Assertion Evaluator              *)
(* (runAssertions), the Step Runner (runActionsStopOnFailure) and the      *)
(* Session Orchestrator (the POST /api/run-automation handler).            *)
(*                                                                         *)
(* Two specifications share the definitions below:                         *)
(*   SpecRunner  one call of runActionsStopOnFailure on an action list     *)
(*               drawn from ActionLists, one loop iteration per step;      *)
(*   Spec        one request served by the handler, one step per await.    *)
(* The browser, the catalog and the result store are the environment:      *)
(* what they answer is drawn with \E where the code awaits them.           *)
(***************************************************************************)
EXTENDS Integers, Sequences, FiniteSets, TLC

VARIABLES
    \* AutomationService instance (automation.js:5-9) and its driver
    browser,        \* this.browser: "null", "open" or "closed"
    launches,       \* number of playwright launch() calls that succeeded
    closes,         \* number of browser.close() calls
    \* one activation of runActionsStopOnFailure (automation.js:49-98)
    actions,        \* the argument
    i,              \* the loop index, 1-based (the code's i + 1)
    results,        \* the local results array
    rpc,            \* "idle", "loop" or "returned"
    steps,          \* history: what the browser answered at each executed step
    \* one activation of the request handler (index.js:21-249)
    pc,             \* position in the handler
    payload,        \* req.body
    service,        \* automationService: "undefined" or "created"
    authTest,       \* the fetched auth test case, or NoTest
    fetchedIds,     \* history: the ids a batch fetch answered, in order
    testCasesToRun, \* the list the loop iterates
    idx,            \* position of the loop in testCasesToRun (1-based)
    cur,            \* locals of the current loop iteration
    allResults,     \* the allResults array
    saved,          \* the saveTestResults calls made, in order
    responses,      \* the HTTP responses sent, in order
    trace,          \* history: browser and store operations, in order
    \* the page of the service (automation.js:29) and the browser's web storage
    pageUrl,        \* origin of the document the page shows
    localStorage,   \* per origin, what localStorage.token reads
    \* one call of a function of utils.js or of a resolver of automation.js
    arg,            \* the arguments of the call
    ret,            \* history: the values returned so far
    \* the result store behind saveTestResults (supabase.js:31-102)
    testResults,    \* table test_results: the rows, in order of insertion
    runHistory,     \* table run_history: the rows, in order of insertion
    saveCalls,      \* history: the saveTestResults calls and how each ended
    \* two activations of the request handler at once
    reqs,           \* per request: position and locals of its handler
    instances       \* the AutomationService instances and their browsers

vars == <<browser, launches, closes, actions, i, results, rpc, steps, pc, payload,
          service, authTest, fetchedIds, testCasesToRun, idx, cur, allResults, saved,
          responses, trace, pageUrl, localStorage,
          arg, ret, testResults, runHistory, saveCalls, reqs, instances>>

runnerVars == <<actions, i, results, rpc, steps>>
pageVars == <<pageUrl, localStorage>>
callVars == <<arg, ret>>
storeVars == <<testResults, runHistory, saveCalls>>
pairVars == <<reqs, instances>>
\* What the Step Runner and the handler of one request leave alone.
otherVars == <<callVars, storeVars, pairVars>>
handlerVars == <<pc, payload, service, authTest, fetchedIds, testCasesToRun, idx, cur,
                 allResults, saved, responses>>

\* The origins a page of the service shows: the blank document of a new page
\* (automation.js:29) and the origin of the test cases' urls.
Origins == {"about:blank", "app"}

\* Longest action list given to the Step Runner in SpecRunner.
MaxActions == 2

Min(a, b) == IF a < b THEN a ELSE b

(***************************************************************************)
(* Actions.  A record holds the fields of an action the code reads.        *)
(* hasSequence = FALSE stands for an absent (undefined/null) sequence;     *)
(* hasElement = FALSE for an absent element descriptor.                    *)
(***************************************************************************)
KeyNames == {"Enter", "Tab", "ArrowUp", "ArrowDown", "ArrowLeft", "ArrowRight", "Escape"}

BaseAction(t) ==
    [type |-> t, hasSequence |-> FALSE, sequence |-> 0,
     hasElement |-> TRUE, isAlert |-> FALSE, hasXpath |-> TRUE,
     inIframe |-> FALSE, hasStorage |-> TRUE, assertions |-> <<>>]

ActionTypes ==
    {"System_Navigate", "navigate", "mousedown", "change", "hover", "scroll",
     "Enter", "fileSelect", "dragstart", "dragend", "teleport"}

\* Assertion kinds: two that read the page, and one the evaluator does not know.
PageKinds == {"pageHasTitle", "pageHasText"}
AssertionLists ==
    {<<"pageHasTitle">>, <<"pageHasTitle", "pageHasText">>, <<"bogus">>}

\* The action shapes the Step Runner is exercised on: every type with default
\* fields, and the variations of each field on the types whose code reads it.
ActionShapes ==
    {BaseAction(t) : t \in ActionTypes}
    \cup {[BaseAction("Enter") EXCEPT !.hasSequence = TRUE, !.sequence = s] : s \in {0, 7}}
    \cup {[BaseAction(t) EXCEPT !.assertions = a] :
            t \in {"mousedown", "Enter", "teleport"}, a \in AssertionLists}
    \cup {[BaseAction(t) EXCEPT !.isAlert = TRUE, !.assertions = a] :
            t \in {"mousedown", "change"}, a \in {<<>>, <<"pageHasTitle">>}}
    \cup {[BaseAction(t) EXCEPT !.hasElement = FALSE, !.hasXpath = FALSE] :
            t \in {"mousedown", "change"}}
    \cup {[BaseAction("mousedown") EXCEPT !.hasXpath = FALSE]}
    \cup {[BaseAction("navigate") EXCEPT !.inIframe = TRUE, !.assertions = a] :
            a \in {<<>>, <<"pageHasTitle">>}}
    \cup {[BaseAction("fileSelect") EXCEPT !.hasStorage = FALSE]}

RECURSIVE SeqsUpTo(_, _)
SeqsUpTo(S, n) ==
    IF n = 0 THEN {<<>>}
    ELSE LET shorter == SeqsUpTo(S, n - 1)
         IN shorter \cup {Append(s, x) : s \in {t \in shorter : Len(t) = n - 1}, x \in S}

ActionLists == SeqsUpTo(ActionShapes, MaxActions)

(***************************************************************************)
(* What the browser answers during one performAction call.                 *)
(*   frame    getFrameContext: "ok", or "throw" when the iframe is not     *)
(*            found (only an action with isTopFrame === false can throw)   *)
(*   op       the outcome of the browser operations of the switch arm      *)
(*   asserts  for each declared assertion, what the page makes it          *)
(*            evaluate to: "true", "false", or "throw" (a driver error)    *)
(***************************************************************************)
OpOutcomes(t) ==
    CASE t = "System_Navigate" -> {"ok", "throw"}
      [] t = "navigate" -> {"first", "last", "late"}
      [] t = "mousedown" -> {"ok", "notClickable", "noHandle", "noBox", "throw"}
      [] t = "change" -> {"text", "checkbox", "checkboxLabel", "radio", "select",
                          "unknown", "notFound", "noType", "throw"}
      [] t = "hover" -> {"ok", "notFound", "throw"}
      [] t = "scroll" -> {"ok", "throw"}
      [] t \in KeyNames -> {"ok", "throw"}
      [] t = "fileSelect" -> {"ok", "notFound", "throw"}
      [] t = "dragstart" -> {"ok", "notFound", "noBox", "throw"}
      [] t = "dragend" -> {"ok", "throw"}
      [] OTHER -> {"none"}

AssertOuts(kind) == IF kind \in PageKinds THEN {"true", "false", "throw"} ELSE {"false"}

AssertEnvs(kinds) ==
    {o \in [1..Len(kinds) -> {"true", "false", "throw"}] :
        \A j \in 1..Len(kinds) : o[j] \in AssertOuts(kinds[j])}

EnvFor(action) ==
    [frame : IF action.inIframe THEN {"ok", "throw"} ELSE {"ok"},
     op : OpOutcomes(action.type),
     asserts : AssertEnvs(action.assertions)]

(***************************************************************************)
(* runAssertions (utils.js:167-273): the assertions in declared order,     *)
(* stopping after the first one that fails.                                *)
(***************************************************************************)
AssertionSuccess(kind, out) == kind \in PageKinds /\ out = "true"

AssertionMessage(kind, out) ==
    LET message ==
            CASE kind = "pageHasTitle" ->
                    IF out = "true" THEN "Title includes value"
                    ELSE "Title does not include expected"
              [] kind = "pageHasText" ->
                    IF out = "true" THEN "Page contains expected text"
                    ELSE "Page does not contain expected"
              [] OTHER -> "Unsupported assertion: " \o kind   \* after a warning sign
    IN IF AssertionSuccess(kind, out) THEN message ELSE "Assertion failed: " \o message

\* Variant of FirstStop: the loop never breaks.
FirstStopNever(kinds, outs) == Len(kinds) + 1

\* Index of the first declared assertion that does not succeed, Len + 1 if none.
FirstStop(kinds, outs) ==
    LET bad == {j \in 1..Len(kinds) : ~AssertionSuccess(kinds[j], outs[j])}
    IN IF bad = {} THEN Len(kinds) + 1
       ELSE CHOOSE j \in bad : \A k \in bad : j <= k

\* page.title() / page.evaluate() raised while an assertion was evaluated.
RunAssertionsThrows(action, outs) ==
    LET stop == FirstStop(action.assertions, outs)
    IN stop <= Len(action.assertions) /\ outs[stop] = "throw"

RunAssertions(action, outs) ==
    LET kinds == action.assertions
        last == Min(FirstStop(kinds, outs), Len(kinds))
    IN [j \in 1..last |->
            [type |-> kinds[j],
             message |-> AssertionMessage(kinds[j], outs[j]),
             success |-> AssertionSuccess(kinds[j], outs[j])]]

(***************************************************************************)
(* performAction (automation.js:424-785).                                  *)
(* SwitchOutcome is the switch statement: how the arm for action.type      *)
(* ends ("break", an early "return", or a "throw") with the values of the  *)
(* locals success and message.  index is 1-based.                          *)
(***************************************************************************)
Break(success, message) == [how |-> "break", success |-> success, message |-> message]
Return(success, message) == [how |-> "return", success |-> success, message |-> message]
Throw(message) == [how |-> "throw", success |-> FALSE, message |-> message]

\* automation.js:469  arr?.length - 1 > index && arr[index + 1]?.type === 'fileSelect'
NextIsFileSelect(arr, index) == index < Len(arr) /\ arr[index + 1].type = "fileSelect"

MouseDown(action, arr, index, op) ==
    IF ~action.hasElement THEN Throw("Cannot read properties of undefined (reading 'isAlert')")
    ELSE IF NextIsFileSelect(arr, index) \/ action.isAlert
    THEN Return(TRUE, "File input: click skipped to avoid file dialog")
    ELSE IF ~action.hasXpath THEN Throw("XPath required for mousedown action")
    ELSE CASE op = "notClickable" -> Return(FALSE, "Element is not visible")
           [] op = "noHandle" -> Throw("Element not found for mousedown action")
           [] op = "noBox" -> Throw("Could not get bounding box for element")
           [] op = "throw" -> Throw("driver error")
           [] OTHER -> Break(TRUE, "Mouse click simulated (isTrusted)")

Change(action, op) ==
    IF ~action.hasElement THEN Throw("Cannot read properties of undefined (reading 'isAlert')")
    ELSE IF action.isAlert THEN Return(TRUE, "change ignore in Js popup")
    ELSE CASE op = "notFound" -> Throw("Element not found for change action")
           [] op = "noType" -> Throw("Unable to detect element type")
           [] op = "text" -> Break(TRUE, "Text entered")
           [] op = "checkbox" -> Break(TRUE, "Checkbox checked")
           [] op = "checkboxLabel" -> Break(TRUE, "Checkbox checked via label")
           [] op = "radio" -> Break(TRUE, "Radio selected")
           [] op = "select" -> Break(TRUE, "Option selected")
           [] op = "unknown" -> Break(FALSE, "Unsupported Type")
           [] OTHER -> Throw("driver error")

\* Variant of PollTimeout: a window twice as long.
PollTimeoutLong == 2 * 10000

\* automation.js:446-447
PollTimeout == 10000
PollInterval == 1000

\* The poll at which the frame's normalized URL first equals the expected
\* one: the first poll, the tenth, or only the eleventh second.
MatchAt(op) == CASE op = "first" -> 1 [] op = "last" -> 10 [] OTHER -> 11

\* automation.js:451-460: the loop, from a given elapsed time and number of
\* polls already made.
RECURSIVE PollFrom(_, _, _)
PollFrom(elapsed, polls, matchAt) ==
    IF elapsed < PollTimeout
    THEN IF polls + 1 = matchAt
         THEN [isMatch |-> TRUE, polls |-> polls + 1]
         ELSE PollFrom(elapsed + PollInterval, polls + 1, matchAt)
    ELSE [isMatch |-> FALSE, polls |-> polls]

NavigatePoll(op) == PollFrom(0, 0, MatchAt(op))

\* Variant of Navigate that fails the step when the URLs do not match.
NavigateStrict(op) ==
    IF NavigatePoll(op).isMatch THEN Break(TRUE, "Current URL matches expected (normalized)")
    ELSE Break(FALSE, "Current URL does not match expected")

\* automation.js:444-465: success is true whatever the comparison gives.
Navigate(op) ==
    IF NavigatePoll(op).isMatch THEN Break(TRUE, "Current URL matches expected (normalized)")
    ELSE Break(TRUE, "Current URL does not match expected")

SwitchOutcome(action, arr, index, op) ==
    CASE action.type = "System_Navigate" ->
            IF op = "ok" THEN Break(TRUE, "Navigated to url") ELSE Throw("driver error")
      [] action.type = "navigate" -> Navigate(op)
      [] action.type = "mousedown" -> MouseDown(action, arr, index, op)
      [] action.type = "change" -> Change(action, op)
      [] action.type = "hover" ->
            CASE op = "notFound" -> Throw("Element not found for hover action")
              [] op = "throw" -> Throw("driver error")
              [] OTHER -> Break(TRUE, "Hovered")
      [] action.type = "scroll" ->
            IF op = "ok" THEN Break(TRUE, "Scroll to (x, y) successful") ELSE Throw("driver error")
      [] action.type \in KeyNames ->
            IF op = "ok" THEN Break(TRUE, "Successfully Pressed") ELSE Throw("driver error")
      [] action.type = "fileSelect" ->
            IF ~action.hasStorage THEN Break(FALSE, "File error")
            ELSE CASE op = "notFound" -> Throw("Element not found for fileSelect action")
                   [] op = "throw" -> Throw("driver error")
                   [] OTHER -> Break(TRUE, "File selected")
      [] action.type = "dragstart" ->
            CASE op = "notFound" -> Break(FALSE, "dragstart: element not found")
              [] op = "noBox" -> Break(FALSE, "dragstart: cannot get bounding box")
              [] op = "throw" -> Throw("driver error")
              [] OTHER -> Break(TRUE, "Drag started via Playwright CDP")
      [] action.type = "dragend" ->
            IF op = "ok" THEN Break(TRUE, "Drag end via Playwright CDP") ELSE Throw("driver error")
      [] OTHER -> Break(FALSE, "Unsupported action type: " \o action.type)

\* Variant of Caught that reports the step as passed.
CaughtAsPass(message, actionSuccess, invoked) ==
    [success |-> TRUE, message |-> message, assertions |-> <<>>,
     actionSuccess |-> actionSuccess, invoked |-> invoked,
     error |-> message, actionMessage |-> ""]

\* automation.js:781-784: the catch of performAction.
Caught(message, actionSuccess, invoked) ==
    [success |-> FALSE, message |-> message, assertions |-> <<>>,
     actionSuccess |-> actionSuccess, invoked |-> invoked,
     error |-> message, actionMessage |-> ""]

\* Variant of AfterSwitch in which the assertions alone decide the outcome.
AfterSwitchAssertionsOnly(action, success, message, outs) ==
    IF RunAssertionsThrows(action, outs)
    THEN [Caught("driver error", success, TRUE) EXCEPT !.actionMessage = message]
    ELSE LET assertions == RunAssertions(action, outs)
             failed == {j \in 1..Len(assertions) : ~assertions[j].success}
         IN [success |-> failed = {},
             message |-> IF failed # {} THEN assertions[Len(assertions)].message ELSE message,
             assertions |-> assertions,
             actionSuccess |-> success, invoked |-> TRUE,
             error |-> "none", actionMessage |-> message]

\* Variant of AfterSwitch that keeps the action's message when an assertion fails.
AfterSwitchOwnMessage(action, success, message, outs) ==
    IF RunAssertionsThrows(action, outs)
    THEN [Caught("driver error", success, TRUE) EXCEPT !.actionMessage = message]
    ELSE LET assertions == RunAssertions(action, outs)
             failed == {j \in 1..Len(assertions) : ~assertions[j].success}
         IN [success |-> success /\ failed = {},
             message |-> message,
             assertions |-> assertions,
             actionSuccess |-> success, invoked |-> TRUE,
             error |-> "none", actionMessage |-> message]

\* automation.js:769-780: the code after the switch.
AfterSwitch(action, success, message, outs) ==
    IF RunAssertionsThrows(action, outs)
    THEN [Caught("driver error", success, TRUE) EXCEPT !.actionMessage = message]
    ELSE LET assertions == RunAssertions(action, outs)
             failed == {j \in 1..Len(assertions) : ~assertions[j].success}
             failedMsg == IF failed = {} THEN "No failed assertions"
                          ELSE assertions[CHOOSE j \in failed : \A k \in failed : j <= k].message
         IN [success |-> success /\ failed = {},
             message |-> IF failed # {} THEN failedMsg ELSE message,
             assertions |-> assertions,
             actionSuccess |-> success, invoked |-> TRUE,
             error |-> "none", actionMessage |-> message]

\* automation.js:495-497: the mousedown arm got as far as mouse.move, mouse.down
\* and mouse.up (a history value, not part of what performAction returns).
MouseSent(action, arr, index, env) ==
    /\ env.frame = "ok"
    /\ action.type = "mousedown"
    /\ SwitchOutcome(action, arr, index, env.op).how = "break"

\* automation.js:451-460: the polls of frame.url() the navigate arm made (a
\* history value, not part of what performAction returns).
Polls(action, env) ==
    IF env.frame = "ok" /\ action.type = "navigate" THEN NavigatePoll(env.op).polls ELSE 0

\* The value performAction returns, with history fields that are not part of
\* it: actionSuccess and actionMessage (the action's own outcome, before the
\* assertions), invoked (whether runAssertions was called) and error (the
\* message of the error the catch received, "none" if it received none).
PerformAction(action, arr, index, env) ==
    IF env.frame = "throw" THEN Caught("Iframe not found within 30000ms", FALSE, FALSE)
    ELSE LET sw == SwitchOutcome(action, arr, index, env.op)
         IN CASE sw.how = "throw" -> Caught(sw.message, FALSE, FALSE)
              [] sw.how = "return" ->
                    [success |-> sw.success, message |-> sw.message, assertions |-> <<>>,
                     actionSuccess |-> sw.success, invoked |-> FALSE,
                     error |-> "none", actionMessage |-> sw.message]
              [] OTHER -> AfterSwitch(action, sw.success, sw.message, env.asserts)

(***************************************************************************)
(* runActionsStopOnFailure (automation.js:49-98), one loop iteration per   *)
(* step.  performAction catches everything it raises, so the catch of      *)
(* lines 78-85 is never entered for an action object.                      *)
(***************************************************************************)
\* Variant of LoopContinues that leaves the loop one iteration early.
LoopContinuesShort(index, arr) == index < Len(arr)

\* automation.js:53
LoopContinues(index, arr) == index <= Len(arr)

\* automation.js:58  action.sequence || i + 1
ResultSequence(action, index) ==
    IF action.hasSequence /\ action.sequence # 0 THEN action.sequence ELSE index

\* automation.js:68
ResultStatus(actionResult) == IF actionResult.success THEN "pass" ELSE "fail"

\* Variant of ShouldStop without the break: a failing step does not stop the run.
NeverStop(actionResult) == FALSE

\* automation.js:73
ShouldStop(actionResult) == ~actionResult.success

StepResult(action, index, actionResult) ==
    [sequence |-> ResultSequence(action, index),
     description |-> action.type,
     status |-> ResultStatus(actionResult),
     message |-> IF actionResult.message = "" THEN "Success" ELSE actionResult.message,
     assertions |-> actionResult.assertions]

\* Every declared assertion evaluates to success on the page as it is.
AllAssertionsHold(action, outs) ==
    \A j \in 1..Len(action.assertions) : AssertionSuccess(action.assertions[j], outs[j])

\* Variant of ClosesOnReturn: the runner closes the browser as runActions does.
ClosesOnReturnLegacy == TRUE

\* automation.js:93-97: runActionsStopOnFailure returns without closing the
\* browser (the legacy runActions closes it in a finally, automation.js:194-196).
ClosesOnReturn == FALSE

ReturnFromRunner ==
    /\ rpc' = "returned"
    /\ IF ClosesOnReturn /\ browser # "null"
       THEN browser' = "closed" /\ closes' = closes + 1
       ELSE UNCHANGED <<browser, closes>>

StepEvent(index, result) ==
    [op |-> "step", kind |-> cur.kind, tc |-> cur.id, browser |-> browser,
     step |-> index, status |-> result.status, token |-> localStorage[pageUrl]]

RunStep ==
    /\ rpc = "loop"
    /\ LoopContinues(i, actions)
    /\ \E env \in EnvFor(actions[i]) :
        LET action == actions[i]
            actionResult == PerformAction(action, actions, i, env)
        IN /\ results' = Append(results, StepResult(action, i, actionResult))
           /\ trace' = Append(trace, StepEvent(i, StepResult(action, i, actionResult)))
           /\ steps' = Append(steps, [actionSuccess |-> actionResult.actionSuccess,
                                      invoked |-> actionResult.invoked,
                                      holds |-> AllAssertionsHold(action, env.asserts),
                                      error |-> actionResult.error,
                                      actionMessage |-> actionResult.actionMessage,
                                      frame |-> env.frame,
                                      outs |-> env.asserts,
                                      mouse |-> MouseSent(action, actions, i, env),
                                      polls |-> Polls(action, env)])
           /\ IF ShouldStop(actionResult)
              THEN ReturnFromRunner /\ i' = i
              ELSE rpc' = "loop" /\ i' = i + 1 /\ UNCHANGED <<browser, closes>>
    /\ UNCHANGED <<actions, launches, handlerVars, pageVars, otherVars>>

\* automation.js:97: the loop is over, return results.
RunReturn ==
    /\ rpc = "loop"
    /\ ~LoopContinues(i, actions)
    /\ ReturnFromRunner
    /\ UNCHANGED <<actions, i, results, steps, trace, launches, handlerVars, pageVars,
                   otherVars>>

\* No call, no store and no second request are part of the run.
CallIdle == arg = <<>> /\ ret = <<>>
StoreIdle == testResults = <<>> /\ runHistory = <<>> /\ saveCalls = <<>>
PairIdle == reqs = <<>> /\ instances = <<>>
OthersIdle == CallIdle /\ StoreIdle /\ PairIdle

NoTest == [id |-> 0, hasUrl |-> FALSE, actions |-> <<>>]
NoCur == [kind |-> "none", id |-> 0, status |-> "none", failScreenshot |-> "null"]
NoPayload ==
    [testCaseId |-> 0, moduleIds |-> FALSE, loginRequired |-> FALSE, loginMode |-> "none",
     authTestCaseId |-> 0, otp |-> "absent", browserName |-> "chromium"]

\* A service whose browser is open, about to run one action list.
InitRunner ==
    /\ browser = "open" /\ launches = 1 /\ closes = 0
    /\ actions \in ActionLists
    /\ i = 1 /\ results = <<>> /\ rpc = "loop" /\ steps = <<>>
    /\ pc = "idle" /\ payload = NoPayload /\ service = "created"
    /\ authTest = NoTest /\ fetchedIds = <<>> /\ testCasesToRun = <<>> /\ idx = 0 /\ cur = NoCur
    /\ allResults = <<>> /\ saved = <<>> /\ responses = <<>> /\ trace = <<>>
    /\ pageUrl = "about:blank" /\ localStorage = [o \in Origins |-> "null"]
    /\ OthersIdle

NextRunner == RunStep \/ RunReturn

SpecRunner == InitRunner /\ [][NextRunner]_vars

(***************************************************************************)
(* The request handler (index.js:21-249).                                  *)
(*                                                                         *)
(* The catalog is fixed: three test cases, with and without a url, with    *)
(* an empty, a passing and a failing action list.  Which of them a fetch   *)
(* returns, in which order, and whether a store call fails, is drawn       *)
(* where the handler awaits it.                                            *)
(***************************************************************************)
\* Most test cases a batch fetch returns.
MaxBatch == 2

Ids == {1, 2, 3}

Catalog(id) ==
    CASE id = 1 -> [id |-> 1, hasUrl |-> TRUE,
                    actions |-> <<BaseAction("Enter"), BaseAction("Enter")>>]
      [] id = 2 -> [id |-> 2, hasUrl |-> FALSE,
                    actions |-> <<BaseAction("navigate"), BaseAction("teleport")>>]
      [] OTHER -> [id |-> 3, hasUrl |-> TRUE, actions |-> <<>>]

\* The requests: a target (testCaseId, a non-empty moduleIds, both or neither)
\* and a login setting.  0 stands for an absent id; the otp, when given, is
\* {storageType: 'localStorage', object: '{"token":"abc"}'}, and "default" is
\* the otp the handler fills in, whose object is '{}'.
Payloads ==
    {p \in [testCaseId : {0, 1, 2}, moduleIds : BOOLEAN, loginRequired : BOOLEAN,
            loginMode : {"social", "otp"}, authTestCaseId : {0, 1}, otp : {"absent", "token"},
            browserName : {"chromium", "netscape"}] :
        /\ p.loginMode = "social" => p.otp = "absent"
        /\ ~p.loginRequired => p.loginMode = "social"}

\* index.js:25-32
DefaultOtp(p) ==
    IF p.loginRequired /\ p.loginMode = "otp" /\ p.otp = "absent"
    THEN [p EXCEPT !.otp = "default"] ELSE p

\* Variant of ValidateCloudPayload that accepts every payload.
ValidateAnything(p) == TRUE

\* validateCloudPayload is imported from ./utils (index.js:5), which does not
\* define it: taken from the specification (4.7, request validation).
ValidateCloudPayload(p) == p.testCaseId # 0 \/ p.moduleIds

\* Variant of summarizeResults that counts the status 'failed', which no step has.
summarizeResultsTypo(res) ==
    [passed |-> Cardinality({k \in 1..Len(res) : res[k].status = "pass"}),
     failed |-> Cardinality({k \in 1..Len(res) : res[k].status = "failed"}),
     skipped |-> 0,
     total |-> Len(res)]

\* index.js:14-19
summarizeResults(res) ==
    [passed |-> Cardinality({k \in 1..Len(res) : res[k].status = "pass"}),
     failed |-> Cardinality({k \in 1..Len(res) : res[k].status = "fail"}),
     skipped |-> 0,
     total |-> Len(res)]

\* index.js:121
TestStatus(summary) == IF summary.failed > 0 THEN "fail" ELSE "pass"

\* index.js:133-139
TestResult(testCase, res) ==
    LET summary == summarizeResults(res)
    IN [testCaseId |-> testCase.id, status |-> TestStatus(summary),
        passed |-> summary.passed, failed |-> summary.failed,
        skipped |-> summary.skipped, total |-> summary.total, results |-> res]

\* Variant of ErrorResult that counts no failure.
ErrorResultEmpty(testCase) ==
    [testCaseId |-> testCase.id, status |-> "fail",
     passed |-> 0, failed |-> 0, skipped |-> 0, total |-> 0, results |-> <<>>]

\* index.js:172-187
ErrorResult(testCase) ==
    [testCaseId |-> testCase.id, status |-> "fail",
     passed |-> 0, failed |-> 1, skipped |-> 0, total |-> 1,
     results |-> <<[sequence |-> 1, description |-> "Test execution error",
                    status |-> "fail", message |-> "driver error", assertions |-> <<>>]>>]

\* Variant of SaveArgs that drops the screenshot.
SaveArgsNoShot(entry, failScreenshot) ==
    [test_case |-> entry.testCaseId, status |-> entry.status,
     passed |-> entry.passed, failed |-> entry.failed,
     skipped |-> entry.skipped, total |-> entry.total,
     fail_screenShot |-> "null"]

\* Variant of SaveArgs that saves every test case with the literals of the
\* error path.
SaveArgsSynthetic(entry, failScreenshot) ==
    [test_case |-> entry.testCaseId, status |-> "fail",
     passed |-> 0, failed |-> 1, skipped |-> 0, total |-> 1,
     fail_screenShot |-> failScreenshot]

\* index.js:145-162 and 193-210: the argument of saveTestResults.
SaveArgs(entry, failScreenshot) ==
    [test_case |-> entry.testCaseId, status |-> entry.status,
     passed |-> entry.passed, failed |-> entry.failed,
     skipped |-> entry.skipped, total |-> entry.total,
     fail_screenShot |-> failScreenshot]

\* Variant of FilterAuth that drops the auth test case only at the head of the list.
FilterAuthHead(testCases, authTestCaseId) ==
    IF testCases # <<>> /\ testCases[1].id = authTestCaseId THEN Tail(testCases) ELSE testCases

\* index.js:98-99
FilterAuth(testCases, authTestCaseId) ==
    SelectSeq(testCases, LAMBDA tc : tc.id # authTestCaseId)

\* Variant of SocialBranch that tests the wrong login mode.
SocialBranchOtp(p) == p.loginMode = "otp" /\ p.authTestCaseId # 0

\* index.js:55
SocialBranch(p) == p.loginMode = "social" /\ p.authTestCaseId # 0

\* Variant of OtpBranch that never seeds the storage.
OtpBranchNever(p) == FALSE

\* index.js:67
OtpBranch(p) == ~SocialBranch(p) /\ p.loginMode = "otp" /\ p.otp # "absent"

\* Variant of CloseCalled: the browser is closed after the report only, not in
\* a finally block.
CloseCalledAfterReport(svc, b) ==
    svc = "created" /\ b # "null" /\ responses # <<>> /\ responses[1].status = 200

\* index.js:240 and automation.js:40: the finally block reaches browser.close().
CloseCalled(svc, b) == svc = "created" /\ b # "null"

\* Variant of Report whose status looks at the passed steps.
ReportByPassed(all) ==
    LET Sum(f) == LET S[k \in 0..Len(all)] == IF k = 0 THEN 0 ELSE S[k - 1] + all[k][f]
                  IN S[Len(all)]
    IN [status |-> IF Sum("passed") > 0 THEN "passed" ELSE "failed",
        totalTestCases |-> Len(all), passed |-> Sum("passed"), failed |-> Sum("failed"),
        testCases |-> all]

\* index.js:218-228
Report(all) ==
    LET Sum(f) == LET S[k \in 0..Len(all)] == IF k = 0 THEN 0 ELSE S[k - 1] + all[k][f]
                  IN S[Len(all)]
        totalPassed == Sum("passed")
        totalFailed == Sum("failed")
    IN [status |-> IF totalFailed = 0 THEN "passed" ELSE "failed",
        totalTestCases |-> Len(all), passed |-> totalPassed, failed |-> totalFailed,
        testCases |-> all]

Event(op) ==
    [op |-> op, kind |-> cur.kind, tc |-> cur.id, browser |-> browser,
     step |-> 0, status |-> "none", token |-> localStorage[pageUrl]]

\* A call of fetchTestCase(id) and what the store answered (supabase.js:19-23).
FetchEvent(kind, id, answer) ==
    [Event("fetch") EXCEPT !.kind = kind, !.tc = id, !.status = answer]

\* The origin of testCase.url: the urls of the catalog are of one origin.
UrlOrigin(testCase) == "app"

\* automation.js:132-137: page.evaluate writes every key of the otp object to
\* window.localStorage.  The default object has no key, so the storage is
\* not touched; with a key, the blank document of a new page either refuses
\* the access (the evaluate rejects) or lets it write to its own storage.
SeedOutcomes(otp) ==
    IF otp = "token" THEN {"ok", "throw"} ELSE {"ok"}

\* automation.js:121-155, storageType 'localStorage': the write goes to the
\* storage of the document the page shows.
SetOtpStorage(otp, url, storage) ==
    IF otp = "token" THEN [storage EXCEPT ![url] = "abc"] ELSE storage

\* Variant of Respond that leaves the try block without sending anything.
RespondSilent(status, body) ==
    /\ responses' = responses
    /\ pc' = "finally"

\* res.status(n).json(...) followed by leaving the try block: the finally runs.
Respond(status, body) ==
    /\ responses' = Append(responses, [status |-> status, body |-> body])
    /\ pc' = "finally"

\* A call of runActionsStopOnFailure(list).
CallRunner(list) ==
    /\ actions' = list /\ i' = 1 /\ results' = <<>> /\ steps' = <<>> /\ rpc' = "loop"

\* index.js:22-37
Validate ==
    /\ pc = "start"
    /\ payload' = DefaultOtp(payload)
    /\ IF ValidateCloudPayload(payload')
       THEN pc' = "init" /\ responses' = responses
       ELSE pc' = "done" /\ responses' = Append(responses, [status |-> 400, body |-> "error"])
    /\ UNCHANGED <<otherVars, browser, launches, closes, pageVars, runnerVars, service, authTest,
                   fetchedIds, testCasesToRun, idx, cur, allResults, saved, trace>>

\* index.js:48-49 and automation.js:17-30
InitService ==
    /\ pc = "init"
    /\ service' = "created"
    /\ \E launch \in {"ok", "launchFails", "contextFails"} :
        IF payload.browserName \notin {"chromium", "firefox", "webkit"} \/ launch = "launchFails"
        THEN /\ Respond(500, "error")
             /\ UNCHANGED <<browser, launches, trace>>
        ELSE /\ browser' = "open"
             /\ launches' = launches + 1
             /\ trace' = Append(trace, Event("launch"))
             /\ IF launch = "ok"
                THEN pc' = "login" /\ responses' = responses
                ELSE Respond(500, "error")
    /\ UNCHANGED <<otherVars, closes, pageVars, runnerVars, payload, authTest, fetchedIds, testCasesToRun, idx, cur,
                   allResults, saved>>

\* supabase.js:18-30: .single() answers an error unless exactly one row
\* matches, and fetchTestCase throws on any error.
FetchTestCase(id, answer) ==
    IF answer = "row" THEN [threw |-> FALSE, data |-> Catalog(id)]
    ELSE [threw |-> TRUE, data |-> NoTest]

FetchAnswers == {"row", "noRow", "error"}

\* index.js:54-60: the auth test case is fetched.
LoginSocial ==
    /\ pc = "login"
    /\ payload.loginRequired /\ SocialBranch(payload)
    /\ \E answer \in FetchAnswers :
        LET fetched == FetchTestCase(payload.authTestCaseId, answer)
        IN /\ trace' = Append(trace, FetchEvent("auth", payload.authTestCaseId, answer))
           /\ IF fetched.threw
              THEN Respond(500, "error") /\ UNCHANGED <<authTest, cur, runnerVars>>
              ELSE IF fetched.data = NoTest
              THEN /\ Respond(404, "Auth test case not found")
                   /\ UNCHANGED <<authTest, cur, runnerVars>>
              ELSE /\ authTest' = fetched.data
                   /\ cur' = [NoCur EXCEPT !.kind = "auth", !.id = fetched.data.id]
                   /\ responses' = responses
                   /\ IF fetched.data.hasUrl
                      THEN pc' = "authNav" /\ UNCHANGED runnerVars
                      ELSE pc' = "authRun" /\ CallRunner(fetched.data.actions)
    /\ UNCHANGED <<otherVars, browser, launches, closes, pageVars, payload, service, fetchedIds,
                   testCasesToRun, idx, allResults, saved>>

\* index.js:63-64 and automation.js:32-37
AuthNavigate ==
    /\ pc = "authNav"
    /\ \E goto \in {"ok", "throw"} :
        /\ trace' = Append(trace, [Event("nav") EXCEPT !.status = goto])
        /\ IF goto = "ok"
           THEN /\ pc' = "authRun" /\ CallRunner(authTest.actions) /\ responses' = responses
                /\ pageUrl' = UrlOrigin(authTest)
           ELSE Respond(500, "error") /\ UNCHANGED <<runnerVars, pageUrl>>
    /\ UNCHANGED <<otherVars, browser, launches, closes, localStorage, payload, service, authTest,
                   fetchedIds, testCasesToRun, idx, cur, allResults, saved>>

\* index.js:67-70 and automation.js:121-155
LoginOtp ==
    /\ pc = "login"
    /\ payload.loginRequired /\ OtpBranch(payload)
    /\ trace' = Append(trace, Event("seed"))
    /\ \E seed \in SeedOutcomes(payload.otp) :
        IF seed = "ok"
        THEN /\ pc' = "dispatch" /\ responses' = responses
             /\ localStorage' = SetOtpStorage(payload.otp, pageUrl, localStorage)
        ELSE Respond(500, "error") /\ UNCHANGED localStorage
    /\ UNCHANGED <<otherVars, browser, launches, closes, pageUrl, runnerVars, payload, service, authTest,
                   fetchedIds, testCasesToRun, idx, cur, allResults, saved>>

\* index.js:54-71: no login branch is taken.
LoginSkip ==
    /\ pc = "login"
    /\ ~(payload.loginRequired /\ (SocialBranch(payload) \/ OtpBranch(payload)))
    /\ pc' = "dispatch"
    /\ UNCHANGED <<otherVars, browser, launches, closes, pageVars, runnerVars, payload, service, authTest,
                   fetchedIds, testCasesToRun, idx, cur, allResults, saved, responses, trace>>

\* Variant of LoginOver: the handler goes on only after an auth run without a
\* failed step.
LoginOverIfPassed ==
    \/ pc = "dispatch"
    \/ /\ pc = "authRun" /\ rpc = "returned"
       /\ \A k \in 1..Len(results) : results[k].status = "pass"

\* The handler is past the login block: the auth run, if any, has returned
\* and its results are dropped (index.js:64).
LoginOver == pc = "dispatch" \/ (pc = "authRun" /\ rpc = "returned")

\* The lists a batch fetch can answer: distinct test cases, in any order.
BatchLists ==
    {l \in SeqsUpTo(Ids, MaxBatch) : \A a, b \in 1..Len(l) : a # b => l[a] # l[b]}

\* index.js:76-85
FetchSingle ==
    /\ LoginOver
    /\ payload.testCaseId # 0
    /\ \E answer \in FetchAnswers :
        LET fetched == FetchTestCase(payload.testCaseId, answer)
        IN /\ trace' = Append(trace, FetchEvent("regular", payload.testCaseId, answer))
           /\ IF fetched.threw
              THEN Respond(500, "error") /\ UNCHANGED <<testCasesToRun, idx>>
              ELSE IF fetched.data = NoTest
              THEN Respond(404, "Test case not found") /\ UNCHANGED <<testCasesToRun, idx>>
              ELSE /\ testCasesToRun' = <<fetched.data>>
                   /\ idx' = 1
                   /\ pc' = "loop"
                   /\ responses' = responses
    /\ rpc' = "idle"
    /\ UNCHANGED <<otherVars, browser, launches, closes, pageVars, actions, i, results, steps, payload, service,
                   authTest, fetchedIds, cur, allResults, saved>>

\* index.js:87-104 and supabase.js:115-131
FetchBatch ==
    /\ LoginOver
    /\ payload.testCaseId = 0
    /\ IF ~payload.moduleIds
       THEN Respond(400, "Either testCaseId or moduleIds must be provided")
            /\ UNCHANGED <<fetchedIds, testCasesToRun, idx>>
       ELSE \E answer \in {"rows", "error"} : \E l \in BatchLists :
            IF answer = "error"
            THEN Respond(500, "error") /\ UNCHANGED <<fetchedIds, testCasesToRun, idx>>
            ELSE IF Len(l) = 0
            THEN Respond(404, "No test cases found in specified modules")
                 /\ UNCHANGED <<fetchedIds, testCasesToRun, idx>>
            ELSE /\ fetchedIds' = l
                 /\ testCasesToRun' =
                        FilterAuth([k \in 1..Len(l) |-> Catalog(l[k])], payload.authTestCaseId)
                 /\ idx' = 1
                 /\ pc' = "loop"
                 /\ responses' = responses
    /\ rpc' = "idle"
    /\ UNCHANGED <<otherVars, browser, launches, closes, pageVars, actions, i, results, steps, payload, service,
                   authTest, cur, allResults, saved, trace>>

\* index.js:107-114: the next test case has a url.
TestNavigate ==
    /\ pc = "loop" /\ idx <= Len(testCasesToRun)
    /\ testCasesToRun[idx].hasUrl
    /\ LET testCase == testCasesToRun[idx]
           now == [NoCur EXCEPT !.kind = "regular", !.id = testCase.id]
       IN \E goto \in {"ok", "throw"} :
              /\ trace' = Append(trace, [Event("nav") EXCEPT !.kind = "regular",
                                                             !.tc = testCase.id,
                                                             !.status = goto])
              /\ IF goto = "ok"
                 THEN /\ cur' = now
                      /\ pc' = "run"
                      /\ CallRunner(testCase.actions)
                      /\ allResults' = allResults
                      /\ pageUrl' = UrlOrigin(testCase)
                 ELSE /\ cur' = [now EXCEPT !.status = "fail"]
                      /\ pc' = "saveError"
                      /\ allResults' = Append(allResults, ErrorResult(testCase))
                      /\ UNCHANGED <<runnerVars, pageUrl>>
    /\ UNCHANGED <<otherVars, browser, launches, closes, localStorage, payload, service, authTest,
                   fetchedIds, testCasesToRun, idx, saved, responses>>

\* index.js:107-117: the next test case has no url.
TestStart ==
    /\ pc = "loop" /\ idx <= Len(testCasesToRun)
    /\ ~testCasesToRun[idx].hasUrl
    /\ cur' = [NoCur EXCEPT !.kind = "regular", !.id = testCasesToRun[idx].id]
    /\ pc' = "run"
    /\ CallRunner(testCasesToRun[idx].actions)
    /\ UNCHANGED <<otherVars, browser, launches, closes, pageVars, payload, service, authTest, fetchedIds, testCasesToRun,
                   idx, allResults, saved, responses, trace>>

\* index.js:117-141: the Step Runner has returned; summary, screenshot, push.
AfterRun ==
    /\ pc = "run" /\ rpc = "returned"
    /\ LET testResult == TestResult(testCasesToRun[idx], results)
       IN /\ allResults' = Append(allResults, testResult)
          /\ IF testResult.status = "fail"
             THEN \E shot \in {"png", "null"} :
                    /\ trace' = Append(trace, [Event("shot") EXCEPT !.status = shot])
                    /\ cur' = [cur EXCEPT !.status = "fail", !.failScreenshot = shot]
             ELSE /\ trace' = trace
                  /\ cur' = [cur EXCEPT !.status = "pass"]
    /\ pc' = "save"
    /\ rpc' = "idle"
    /\ UNCHANGED <<otherVars, browser, launches, closes, pageVars, actions, i, results, steps, payload, service,
                   authTest, fetchedIds, testCasesToRun, idx, saved, responses>>

\* Variant of SaveAborts: a rejected saveTestResults leaves the test loop.
SaveAbortsOnThrow(store) == store = "throw"

\* index.js:165-167 and 211-213: the catch around saveTestResults logs the
\* error and goes on.
SaveAborts(store) == FALSE

\* Variant of SaveAwaited: the handler goes on while the save is in flight.
SaveNotAwaited == FALSE

\* index.js:145 and 193: the call is awaited, so the loop goes on only when
\* the save has settled.
SaveAwaited == TRUE

\* index.js:144-167 and 191-213: saveTestResults, its failure logged and swallowed.
Save ==
    /\ pc \in {"save", "saveError"}
    /\ \E store \in {"ok", "throw"} :
        /\ saved' = Append(saved, [args |-> SaveArgs(allResults[Len(allResults)],
                                                     cur.failScreenshot),
                                   stored |-> store = "ok"])
        /\ trace' = IF SaveAwaited
                    THEN Append(trace, [Event("save") EXCEPT !.status = store])
                    ELSE trace
        /\ IF SaveAborts(store)
           THEN Respond(500, "error") /\ idx' = idx
           ELSE idx' = idx + 1 /\ pc' = "loop" /\ responses' = responses
    /\ UNCHANGED <<otherVars, browser, launches, closes, pageVars, runnerVars, payload, service, authTest,
                   fetchedIds, testCasesToRun, cur, allResults>>

\* index.js:217-230
SendReport ==
    /\ pc = "loop" /\ idx > Len(testCasesToRun)
    /\ Respond(200, Report(allResults))
    /\ UNCHANGED <<otherVars, browser, launches, closes, pageVars, runnerVars, payload, service, authTest,
                   fetchedIds, testCasesToRun, idx, cur, allResults, saved, trace>>

\* index.js:238-248 and automation.js:39-43
Finally ==
    /\ pc = "finally"
    /\ IF CloseCalled(service, browser)
       THEN /\ browser' = "closed"
            /\ closes' = closes + 1
            /\ trace' = Append(trace, Event("close"))
       ELSE UNCHANGED <<browser, closes, trace>>
    /\ pc' = "done"
    /\ UNCHANGED <<otherVars, launches, pageVars, runnerVars, payload, service, authTest, fetchedIds,
                   testCasesToRun, idx,
                   cur, allResults, saved, responses>>

Init ==
    /\ browser = "null" /\ launches = 0 /\ closes = 0
    /\ actions = <<>> /\ i = 1 /\ results = <<>> /\ rpc = "idle" /\ steps = <<>>
    /\ pc = "start" /\ payload \in Payloads /\ service = "undefined"
    /\ authTest = NoTest /\ fetchedIds = <<>> /\ testCasesToRun = <<>> /\ idx = 0 /\ cur = NoCur
    /\ allResults = <<>> /\ saved = <<>> /\ responses = <<>> /\ trace = <<>>
    /\ pageUrl = "about:blank" /\ localStorage = [o \in Origins |-> "null"]
    /\ OthersIdle

Next ==
    \/ Validate \/ InitService
    \/ LoginSocial \/ AuthNavigate \/ LoginOtp \/ LoginSkip
    \/ FetchSingle \/ FetchBatch
    \/ TestNavigate \/ TestStart \/ RunStep \/ RunReturn \/ AfterRun \/ Save
    \/ SendReport \/ Finally

Spec == Init /\ [][Next]_vars

(***************************************************************************)
(* Properties of the Step Runner, checked under SpecRunner.                *)
(***************************************************************************)
AllPass(res) == \A k \in 1..Len(res) : res[k].status = "pass"

\* C1: a step with status fail is the last element of results: no StepResult
\* follows a failing one, whatever made the step fail.
C1_FailIsLast ==
    \A k \in 1..Len(results) : results[k].status = "fail" => k = Len(results)

\* C1 witness: the run stopped at a step that an assertion failed, with an
\* action left unexecuted.
C1_Witness ==
    /\ rpc = "returned" /\ Len(results) = 1 /\ Len(actions) = 2
    /\ results[1].status = "fail" /\ results[1].assertions # <<>>

\* C2 as stated: the returned list is as long as the action list exactly when
\* every step in it passed.  A failing last action refutes it.
C2_Original ==
    rpc = "returned" =>
        /\ Len(results) <= Len(actions)
        /\ Len(results) = Len(actions) <=> AllPass(results)

\* C2 amended: results is never longer than actions, and is as long exactly
\* when no step before the last action failed (the step of the last action
\* may fail and is still appended).
C2_Length ==
    rpc = "returned" =>
        /\ Len(results) <= Len(actions)
        /\ Len(results) = Len(actions)
            <=> \A k \in 1..Len(results) : k < Len(actions) => results[k].status = "pass"

\* C2 witness: a full-length result list whose last step failed.
C2_Witness ==
    /\ rpc = "returned" /\ Len(actions) = 2 /\ Len(results) = 2
    /\ results[1].status = "pass" /\ results[2].status = "fail"

\* C3 as stated: a step passes exactly when its action succeeded and every
\* assertion declared on the action evaluates to success.  The early returns of
\* mousedown and change pass without evaluating a declared assertion.
C3_Claim ==
    \A k \in 1..Len(results) :
        results[k].status = "pass" <=> (steps[k].actionSuccess /\ steps[k].holds)

\* C4 as stated: runAssertions is invoked after every action performAction
\* executes.  A throw and the early returns leave it out.
C4_Claim == \A k \in 1..Len(steps) : steps[k].invoked

\* C6 as stated: results[k] carries the sequence of actions[k] when the field is
\* present (0 included), its position otherwise, and describes actions[k].
\* A sequence of 0 is replaced by the position.
C6_Claim ==
    \A k \in 1..Len(results) :
        /\ results[k].sequence =
              (IF actions[k].hasSequence THEN actions[k].sequence ELSE k)
        /\ results[k].description = actions[k].type

(***************************************************************************)
(* Properties of the request handler, checked under Spec.                  *)
(***************************************************************************)
\* C5: every per-test report, the synthetic one of a test case that threw
\* included, has passed + failed + skipped = total = results.length, skipped = 0.
C5_SummaryConsistent ==
    \A k \in 1..Len(allResults) :
        LET r == allResults[k]
        IN /\ r.passed + r.failed + r.skipped = r.total
           /\ r.total = Len(r.results)
           /\ r.skipped = 0

\* C5 witness: a synthetic report followed by a report of one passed and one
\* failed step.
C5_Witness ==
    /\ Len(allResults) = 2
    /\ Len(allResults[1].results) = 1
    /\ allResults[1].results[1].description = "Test execution error"
    /\ allResults[2].passed = 1 /\ allResults[2].failed = 1

\* C7: a launched browser is closed exactly once, at the end of the request, on
\* every exit path of the handler.
C7_ClosedOnce ==
    /\ closes <= 1
    /\ closes = 1 => pc = "done"
    /\ (pc = "done" /\ launches > 0) => (closes = 1 /\ browser = "closed")

\* C7 witness: the request ended on the 404 early return with its browser closed.
C7_Witness ==
    /\ pc = "done" /\ launches = 1 /\ closes = 1
    /\ responses = <<[status |-> 404, body |-> "No test cases found in specified modules"]>>

BrowserOps == {"nav", "step", "seed", "shot"}

\* C8: the browser is launched at most once in a request, every navigation,
\* step, seeding and screenshot of the auth pre-test and of the test cases runs
\* on that browser while it is open, and it is not closed before the handler
\* is through with the last test case.
C8_OneBrowser ==
    /\ launches <= 1
    /\ \A k \in 1..Len(trace) :
          trace[k].op \in BrowserOps => (launches = 1 /\ trace[k].browser = "open")
    /\ pc \in {"login", "authNav", "authRun", "dispatch", "loop", "run", "save", "saveError"}
          => (launches = 1 /\ browser = "open" /\ closes = 0)

\* C8 witness: an auth pre-test and two test cases ran, then the browser closed.
C8_Witness ==
    /\ pc = "done" /\ launches = 1 /\ Len(allResults) = 2
    /\ \E k \in 1..Len(trace) : trace[k].op = "step" /\ trace[k].kind = "auth"
    /\ \E k \in 1..Len(trace) : trace[k].op = "step" /\ trace[k].tc = allResults[2].testCaseId
                                  /\ trace[k].kind = "regular"

BatchWithAuth ==
    payload.testCaseId = 0 /\ payload.moduleIds /\ payload.authTestCaseId # 0

\* C9: in a batch request with socialAuth.authTestCaseId = A, A is never run as
\* a regular test case: it is not navigated to or stepped, has no entry in the
\* report and no saved result, wherever it stands in the fetched list.
C9_BatchExclusion ==
    BatchWithAuth =>
        /\ \A k \in 1..Len(allResults) : allResults[k].testCaseId # payload.authTestCaseId
        /\ \A k \in 1..Len(saved) : saved[k].args.test_case # payload.authTestCaseId
        /\ \A k \in 1..Len(trace) :
              trace[k].kind = "regular" => trace[k].tc # payload.authTestCaseId
        /\ \A k \in 1..Len(responses) :
              responses[k].status = 200 =>
                \A j \in 1..Len(responses[k].body.testCases) :
                    responses[k].body.testCases[j].testCaseId # payload.authTestCaseId

\* C9 witness: the fetched list held A behind another test case, and the
\* report went out with that test case alone.
C9_Witness ==
    /\ BatchWithAuth /\ Len(fetchedIds) = 2 /\ fetchedIds[2] = payload.authTestCaseId
    /\ pc = "done" /\ Len(responses) = 1 /\ responses[1].status = 200
    /\ responses[1].body.totalTestCases = 1 /\ Len(saved) = 1

SocialWithAuth ==
    payload.loginRequired /\ payload.loginMode = "social" /\ payload.authTestCaseId # 0

AuthSteps == {k \in 1..Len(trace) : trace[k].op = "step" /\ trace[k].kind = "auth"}
TestOps == {"fetch", "nav", "step", "shot", "save"}
AuthOps == {k \in 1..Len(trace) : trace[k].kind = "auth" /\ trace[k].op \in TestOps}
RegularOps == {k \in 1..Len(trace) : trace[k].kind = "regular" /\ trace[k].op \in TestOps}

\* The auth run leaves nothing in the report or in the store: the report holds
\* one entry per test case of the loop, and only the loop saves.
NoAuthResult ==
    /\ \A k \in 1..Len(trace) : trace[k].op = "save" => trace[k].kind = "regular"
    /\ Len(saved) <= Len(allResults) /\ Len(allResults) <= Len(testCasesToRun)
    /\ \A k \in 1..Len(allResults) : allResults[k].testCaseId = testCasesToRun[k].id

\* C10 as stated, for a request that names its auth test case: every step of
\* the auth test case has run before the first step of a regular test case.
\* The auth run stops at its first failing step, and the request goes on.
C10_Original ==
    SocialWithAuth =>
        /\ RegularOps # {} =>
              /\ authTest.id = payload.authTestCaseId
              /\ Cardinality(AuthSteps) = Len(authTest.actions)
              /\ \A a \in AuthOps, r \in RegularOps : a < r
        /\ NoAuthResult

\* C10 amended: the auth test case is fetched and its steps are run in order,
\* all of them or up to and including the first failing one, before the first
\* navigation or step of a regular test case; its results are neither saved
\* nor reported.
C10_AuthFirst ==
    SocialWithAuth =>
        /\ RegularOps # {} =>
              /\ authTest.id = payload.authTestCaseId
              /\ LET n == Cardinality(AuthSteps)
                 IN /\ {trace[k].step : k \in AuthSteps} = 1..n
                    /\ \A k \in AuthSteps : trace[k].status = "fail" => trace[k].step = n
                    /\ \/ n = Len(authTest.actions)
                       \/ \E k \in AuthSteps : trace[k].step = n /\ trace[k].status = "fail"
              /\ \A a \in AuthOps, r \in RegularOps : a < r
        /\ NoAuthResult

\* C10 witness: the auth run stopped at its first step, and a regular test
\* case ran and was reported after it.
C10_Witness ==
    /\ SocialWithAuth /\ pc = "done"
    /\ Cardinality(AuthSteps) = 1 /\ Len(authTest.actions) = 2
    /\ Len(allResults) >= 1 /\ Len(saved) >= 1
    /\ \E k \in RegularOps : trace[k].op = "step"
    /\ responses[1].status = 200

(***************************************************************************)
(* Login pre-steps.                                                        *)
(***************************************************************************)
SocialNoAuth ==
    payload.loginRequired /\ payload.loginMode = "social" /\ payload.authTestCaseId = 0

RegularRuns ==
    {k \in 1..Len(trace) : trace[k].kind = "regular" /\ trace[k].op \in {"nav", "step"}}

\* C11: a social-login request without socialAuth.authTestCaseId is not served
\* as an unauthenticated run: no regular test case is navigated to, stepped,
\* reported or persisted.
C11_Claim ==
    SocialNoAuth => (RegularRuns = {} /\ allResults = <<>> /\ saved = <<>>)

OtpLogin == payload.loginRequired /\ payload.loginMode = "otp"

Seeds == {k \in 1..Len(trace) : trace[k].op = "seed"}
\* C12: with loginRequired and loginMode 'otp', setOtpStorage is called at most
\* once in a request, exactly once in a request that gets past the login
\* block, and before every navigation and step of every test case.
C12_SeedOnce ==
    OtpLogin =>
        /\ Cardinality(Seeds) <= 1
        /\ pc \in {"dispatch", "loop", "run", "save", "saveError"} => Cardinality(Seeds) = 1
        /\ \A r \in RegularRuns : \E k \in Seeds : k < r

\* C12 witness: an otp request that ran two test cases after one seeding.
C12_Witness ==
    /\ OtpLogin /\ pc = "done" /\ Cardinality(Seeds) = 1
    /\ Len(allResults) = 2 /\ allResults[1].testCaseId # allResults[2].testCaseId
    /\ \E a, b \in RegularRuns : trace[a].tc # trace[b].tc

\* C13: with otp = {storageType: 'localStorage', object: '{"token":"abc"}'},
\* every step of a test case that runs after the navigation to the test
\* case's url reads "abc" from localStorage.token.
C13_Claim ==
    (OtpLogin /\ payload.otp = "token") =>
        \A k \in 1..Len(trace) :
            (/\ trace[k].op = "step" /\ trace[k].kind = "regular"
             /\ \E n \in 1..(k - 1) : /\ trace[n].op = "nav" /\ trace[n].kind = "regular"
                                      /\ trace[n].tc = trace[k].tc /\ trace[n].status = "ok")
            => trace[k].token = "abc"

(***************************************************************************)
(* The test loop: containment of errors, persistence, screenshots.         *)
(***************************************************************************)
StepsOf(t) ==
    {k \in 1..Len(trace) : trace[k].op = "step" /\ trace[k].kind = "regular" /\ trace[k].tc = t}

\* The navigation to the url of test case t threw.
ThrownTc(t) ==
    \E k \in 1..Len(trace) : /\ trace[k].op = "nav" /\ trace[k].kind = "regular"
                             /\ trace[k].tc = t /\ trace[k].status = "throw"

\* A report entry tells what the run of its test case did: the synthetic
\* failure when the test case threw, the counts of its steps otherwise.
EntryMatchesRun(e) ==
    IF ThrownTc(e.testCaseId)
    THEN e.status = "fail" /\ e.passed = 0 /\ e.failed = 1 /\ e.total = 1 /\ Len(e.results) = 1
    ELSE /\ e.passed = Cardinality({k \in StepsOf(e.testCaseId) : trace[k].status = "pass"})
         /\ e.failed = Cardinality({k \in StepsOf(e.testCaseId) : trace[k].status = "fail"})
         /\ e.total = Cardinality(StepsOf(e.testCaseId))
         /\ e.status = (IF e.failed > 0 THEN "fail" ELSE "pass")

Reported == pc \in {"finally", "done"} /\ responses # <<>> /\ responses[1].status = 200

\* One entry per test case of the loop, in the order of the loop.
OneEntryEach(entries) ==
    /\ Len(entries) = Len(testCasesToRun)
    /\ \A k \in 1..Len(entries) : entries[k].testCaseId = testCasesToRun[k].id

\* C14: a test case that throws gets exactly one entry, the synthetic one
\* (fail, passed 0, failed 1, total 1), and the test cases after it are still
\* run and reported: the report has one entry per test case of the loop, each
\* telling what its run did.
C14_ErrorContained ==
    /\ pc = "saveError" =>
          /\ Len(allResults) = idx
          /\ ThrownTc(testCasesToRun[idx].id)
          /\ allResults[idx].testCaseId = testCasesToRun[idx].id
          /\ EntryMatchesRun(allResults[idx])
    /\ Reported =>
          /\ OneEntryEach(responses[1].body.testCases)
          /\ \A k \in 1..Len(testCasesToRun) : EntryMatchesRun(responses[1].body.testCases[k])

\* C14 witness: the first test case of a batch threw, the second ran a step
\* and both are in the report.
C14_Witness ==
    /\ Reported /\ Len(testCasesToRun) = 2
    /\ ThrownTc(testCasesToRun[1].id)
    /\ StepsOf(testCasesToRun[2].id) # {}
    /\ responses[1].body.totalTestCases = 2

\* C15: a save that fails changes neither the course of the run nor the
\* response: after every save, failed or not, the loop goes on to the next
\* test case, and a request that got as far as saving is answered 200 with
\* the report of all its test cases, every entry telling what the run of the
\* test case did, whatever the store answered.
C15_SaveIndependent ==
    /\ pc \in {"loop", "save", "saveError", "run"} => responses = <<>>
    /\ pc = "loop" => Len(saved) = idx - 1
    /\ (pc \in {"finally", "done"} /\ saved # <<>>) =>
          /\ Reported
          /\ responses[1].body = Report(allResults)
          /\ OneEntryEach(allResults)
          /\ Len(saved) = Len(allResults)
          /\ \A k \in 1..Len(allResults) :
                /\ EntryMatchesRun(allResults[k])
                /\ saved[k].args.test_case = allResults[k].testCaseId

\* C15 witness: the save of the first of two test cases failed, and both are
\* in the 200 report.
C15_Witness ==
    /\ Reported /\ Len(saved) = 2 /\ ~saved[1].stored
    /\ Len(responses[1].body.testCases) = 2

RegularWork ==
    {k \in 1..Len(trace) : trace[k].kind = "regular" /\ trace[k].op \in {"nav", "step", "shot"}}

\* C16: test cases are not interleaved: between any navigation, step or
\* screenshot of one test case and a later navigation or step of another
\* test case, the save of the former has settled.
C16_NoInterleave ==
    \A a \in RegularWork, b \in RegularRuns :
        (a < b /\ trace[a].tc # trace[b].tc) =>
            \E c \in (a + 1)..(b - 1) :
                trace[c].op = "save" /\ trace[c].kind = "regular" /\ trace[c].tc = trace[a].tc

\* C16 witness: two test cases of a batch each ran a step, the second after
\* the save of the first.
C16_Witness ==
    /\ pc = "done" /\ Len(saved) = 2
    /\ \E a, b \in RegularRuns :
        a < b /\ trace[a].op = "step" /\ trace[b].op = "step" /\ trace[a].tc # trace[b].tc

ShotsOf(t) ==
    {k \in 1..Len(trace) : trace[k].op = "shot" /\ trace[k].kind = "regular" /\ trace[k].tc = t}
SavesOf(t) ==
    {k \in 1..Len(trace) : trace[k].op = "save" /\ trace[k].kind = "regular" /\ trace[k].tc = t}

\* One screenshot was taken for test case t, after its steps and before its
\* save, and the record carries what the capture returned.
ShotCarried(r) ==
    /\ Cardinality(ShotsOf(r.test_case)) = 1
    /\ \A j \in ShotsOf(r.test_case) :
          /\ \A k \in StepsOf(r.test_case) : k < j
          /\ \A c \in SavesOf(r.test_case) : j < c
          /\ r.fail_screenShot = trace[j].status

NoShot(r) == ShotsOf(r.test_case) = {} /\ r.fail_screenShot = "null"

\* C17 as stated: every persisted record with status fail carries a
\* screenshot captured after the Step Runner returned and before the save,
\* and a record with status pass has none.
C17_Original ==
    \A k \in 1..Len(saved) :
        IF saved[k].args.status = "fail" THEN ShotCarried(saved[k].args) ELSE NoShot(saved[k].args)

\* C17 amended: a screenshot is attempted, after the Step Runner returned and
\* before the save, exactly for the test cases whose Step Runner returned a
\* failing step, and the record carries what the capture returned (null when
\* the capture failed); a passed test case and a test case that threw have
\* no screenshot and fail_screenShot null.
C17_Screenshot ==
    \A k \in 1..Len(saved) :
        LET r == saved[k].args
        IN IF r.status = "fail" /\ ~ThrownTc(r.test_case)
           THEN ShotCarried(r) /\ r.fail_screenShot \in {"png", "null"}
           ELSE NoShot(r)

\* C17 witness: a test case that threw was saved without a screenshot and a
\* test case with a failing step was saved with its screenshot.
C17_Witness ==
    /\ pc = "done" /\ Len(saved) = 2
    /\ ThrownTc(saved[1].args.test_case) /\ saved[1].args.fail_screenShot = "null"
    /\ saved[2].args.status = "fail" /\ saved[2].args.fail_screenShot = "png"

(***************************************************************************)
(* Responses.                                                              *)
(***************************************************************************)
MissingFetches == {k \in 1..Len(trace) : trace[k].op = "fetch" /\ trace[k].status = "noRow"}

\* C18: when the test case named by testCaseId, or the auth test case named
\* by socialAuth.authTestCaseId, is not in the catalog, the request is
\* answered 404 and nothing is persisted.
C18_Claim ==
    MissingFetches # {} =>
        /\ responses # <<>> /\ responses[1].status = 404
        /\ saved = <<>>

NoTarget == payload.testCaseId = 0 /\ ~payload.moduleIds

\* C19: a payload with neither a testCaseId nor a non-empty moduleIds is
\* answered 400 by the validation, before anything else: no service is
\* created, no browser launched, no login step, fetch, navigation or step
\* performed, nothing reported or persisted.
C19_RejectedFirst ==
    NoTarget =>
        \/ pc = "start" /\ responses = <<>>
        \/ /\ pc = "done"
           /\ Len(responses) = 1 /\ responses[1].status = 400
           /\ service = "undefined" /\ launches = 0 /\ browser = "null"
           /\ trace = <<>> /\ allResults = <<>> /\ saved = <<>>

\* C19 witness: a request that asks for an otp login but names no target was
\* rejected.
C19_Witness ==
    /\ NoTarget /\ OtpLogin /\ pc = "done"
    /\ responses = <<[status |-> 400, body |-> "error"]>>

\* The fields of a TestReport and of an OverallReport (testCaseName, which the
\* records here leave out, goes with testCaseId).
IsTestReport(b) ==
    DOMAIN b = {"testCaseId", "status", "passed", "failed", "skipped", "total", "results"}
IsOverallReport(b) ==
    DOMAIN b = {"status", "totalTestCases", "passed", "failed", "testCases"}

\* C20: a successful single-case request is answered with a TestReport, a
\* successful batch request with an OverallReport.
C20_Claim ==
    Reported =>
        IF payload.testCaseId # 0
        THEN IsTestReport(responses[1].body)
        ELSE IsOverallReport(responses[1].body)

(***************************************************************************)
(* The utilities and resolvers, one call each.  Nothing of the Step Runner *)
(* or of the handler is running meanwhile.                                 *)
(***************************************************************************)
coreVars == <<browser, launches, closes, runnerVars, handlerVars, trace, pageVars>>

CoreIdle ==
    /\ browser = "null" /\ launches = 0 /\ closes = 0
    /\ actions = <<>> /\ i = 1 /\ results = <<>> /\ rpc = "idle" /\ steps = <<>>
    /\ pc = "idle" /\ payload = NoPayload /\ service = "undefined"
    /\ authTest = NoTest /\ fetchedIds = <<>> /\ testCasesToRun = <<>> /\ idx = 0 /\ cur = NoCur
    /\ allResults = <<>> /\ saved = <<>> /\ responses = <<>> /\ trace = <<>>
    /\ pageUrl = "about:blank" /\ localStorage = [o \in Origins |-> "null"]

(***************************************************************************)
(* normalizeUrl (utils.js:155-166).  A string is a sequence of characters; *)
(* "h:" stands for a scheme and host, so that "h:" followed by a path and  *)
(* a query is a URL and any other string is not.                           *)
(***************************************************************************)
\* Longest string given to normalizeUrl.
MaxUrlLen == 6

UrlChars == {"h", ":", "/", "b", "?"}
UrlStrings == SeqsUpTo(UrlChars, MaxUrlLen)

\* new URL(s) does not throw.
IsUrl(s) == /\ Len(s) >= 2 /\ s[1] = "h" /\ s[2] = ":"
            /\ Len(s) > 2 => s[3] \in {"/", "?"}

\* new URL(s): an empty path is the root path.
ParseUrl(s) ==
    LET rest == SubSeq(s, 3, Len(s))
        marks == {k \in 1..Len(rest) : rest[k] = "?"}
        q == IF marks = {} THEN Len(rest) + 1 ELSE CHOOSE k \in marks : \A m \in marks : k <= m
        rawPath == SubSeq(rest, 1, q - 1)
    IN [pathname |-> IF rawPath = <<>> THEN <<"/">> ELSE rawPath,
        search |-> SubSeq(rest, q, Len(rest))]

\* urlObj.href
Href(u) == <<"h", ":">> \o u.pathname \o u.search

\* utils.js:157-160: pathname.endsWith('/') && pathname.length > 1
EndsWithSlash(pathname) == pathname[Len(pathname)] = "/" /\ Len(pathname) > 1

normalizeUrl(url) ==
    IF ~IsUrl(url) THEN url
    ELSE LET urlObj == ParseUrl(url)
         IN IF EndsWithSlash(urlObj.pathname)
            THEN Href([urlObj EXCEPT !.pathname = SubSeq(@, 1, Len(@) - 1)])
            ELSE Href(urlObj)

\* normalizeUrl applied to the argument, then to what it returned.
NormalizeUrlCall ==
    /\ Len(ret) < 2
    /\ ret' = Append(ret, normalizeUrl(IF ret = <<>> THEN arg ELSE ret[Len(ret)]))
    /\ UNCHANGED <<arg, coreVars, storeVars, pairVars>>

InitUrl == CoreIdle /\ StoreIdle /\ PairIdle /\ arg \in UrlStrings /\ ret = <<>>

SpecUrl == InitUrl /\ [][NormalizeUrlCall]_vars

\* C21: normalizeUrl strips one trailing slash from a non-root path, leaves
\* the root path and a string that is not a URL unchanged, and is idempotent:
\* applied to its own result it returns that result.
C21_Claim ==
    /\ (Len(ret) >= 1 /\ ~IsUrl(arg)) => ret[1] = arg
    /\ (Len(ret) >= 1 /\ IsUrl(arg)) =>
          LET pathname == ParseUrl(arg).pathname
          IN ParseUrl(ret[1]).pathname =
                IF EndsWithSlash(pathname) THEN SubSeq(pathname, 1, Len(pathname) - 1)
                ELSE pathname
    /\ Len(ret) = 2 => ret[2] = ret[1]

(***************************************************************************)
(* The Frame Locator: getFrameContext and waitForIframeBySrc                *)
(* (automation.js:367-402).  A URL is its origin and the segments of its   *)
(* pathname; the page's frame set does not change during the call.         *)
(***************************************************************************)
\* Most frames of the page.
MaxFrames == 2

FrameOrigins == {"o1", "o2"}
\* Pathnames, split on '/': "42" is an id-like segment, "" an empty one.
FramePaths == {<<>>, <<"w">>, <<"w", "42">>, <<"w", "">>, <<"x">>}

UrlOf(origin, path) == [kind |-> "url", origin |-> origin, path |-> path]
\* A frame without a url, and a string new URL() rejects.
EmptyUrl == [kind |-> "empty", origin |-> "", path |-> <<>>]
InvalidUrl == [kind |-> "invalid", origin |-> "", path |-> <<>>]
AbsentSrc == [kind |-> "absent", origin |-> "", path |-> <<>>]

FrameUrls == {UrlOf(o, q) : o \in FrameOrigins, q \in FramePaths} \cup {EmptyUrl, InvalidUrl}

\* The fields of an action the Frame Locator reads.
FrameActions ==
    [isTopFrame : {"true", "false", "absent"},
     src : {AbsentSrc, InvalidUrl, UrlOf("o1", <<"w">>), UrlOf("o1", <<"w", "42">>),
            UrlOf("o2", <<>>)}]

IdLike(segment) == segment = "42"

\* normalizePath is imported from ./utils (automation.js:2), which does not
\* define it: taken from the specification (4.2): split on '/', drop the
\* empty and the id-like segments.
normalizePath(pathname) == SelectSeq(pathname, LAMBDA seg : seg # "" /\ ~IdLike(seg))

\* Variant of FrameMatches that does not compare the origins.
FrameMatchesPathOnly(current, recorded) ==
    normalizePath(current.path) = normalizePath(recorded.path)

\* automation.js:379-382
FrameMatches(current, recorded) ==
    LET sameOrigin == current.origin = recorded.origin
        samePath == normalizePath(current.path) = normalizePath(recorded.path)
    IN sameOrigin /\ samePath

\* automation.js:367-396: new URL(refSrc) throws on a string that is no URL;
\* frames without a url or with an invalid one are passed over; no match
\* until the timeout is an error.
waitForIframeBySrc(refSrc, frames) ==
    IF refSrc.kind # "url" THEN [how |-> "throw", index |-> 0, message |-> "Invalid URL"]
    ELSE LET found == {k \in 1..Len(frames) :
                          frames[k].kind = "url" /\ FrameMatches(frames[k], refSrc)}
         IN IF found = {}
            THEN [how |-> "throw", index |-> 0, message |-> "Iframe not found within 30000ms"]
            ELSE [how |-> "frame", index |-> CHOOSE k \in found : \A m \in found : k <= m,
                  message |-> ""]

\* automation.js:397-402
getFrameContext(action, frames) ==
    IF action.isTopFrame = "false" /\ action.src.kind # "absent"
    THEN waitForIframeBySrc(action.src, frames)
    ELSE [how |-> "page", index |-> 0, message |-> ""]

GetFrameContextCall ==
    /\ ret = <<>>
    /\ ret' = <<getFrameContext(arg.action, arg.frames)>>
    /\ UNCHANGED <<arg, coreVars, storeVars, pairVars>>

InitFrame ==
    /\ CoreIdle /\ StoreIdle /\ PairIdle
    /\ arg \in [action : FrameActions, frames : SeqsUpTo(FrameUrls, MaxFrames)]
    /\ ret = <<>>

SpecFrame == InitFrame /\ [][GetFrameContextCall]_vars

\* The frames whose URL has the origin and the normalized path of src.
SameOriginAndPath(src, frames) ==
    {k \in 1..Len(frames) :
        /\ frames[k].kind = "url" /\ src.kind = "url"
        /\ frames[k].origin = src.origin
        /\ normalizePath(frames[k].path) = normalizePath(src.path)}

\* C22: for isTopFrame === false and a src, the Frame Locator returns the
\* first frame of the page whose URL has the origin and the normalized path
\* of the src, and fails when there is none; for any other isTopFrame or a
\* missing src it returns the top page.
C22_FrameMatch ==
    ret # <<>> =>
        IF arg.action.isTopFrame = "false" /\ arg.action.src.kind # "absent"
        THEN LET match == SameOriginAndPath(arg.action.src, arg.frames)
             IN IF match = {} THEN ret[1].how = "throw"
                ELSE /\ ret[1].how = "frame"
                     /\ ret[1].index \in match
                     /\ \A k \in match : ret[1].index <= k
        ELSE ret[1].how = "page"

\* C22 witness: the first frame has the path of the src on another origin,
\* the second frame matches it through the normalization of its path.
C22_Witness ==
    /\ ret # <<>> /\ ret[1].how = "frame" /\ ret[1].index = 2
    /\ arg.frames[1].kind = "url" /\ arg.frames[1].path = arg.action.src.path
    /\ arg.frames[1].origin # arg.action.src.origin
    /\ arg.frames[2].path # arg.action.src.path

(***************************************************************************)
(* saveTestResults (supabase.js:31-102): an upsert into test_results keyed *)
(* by test_case, then an insert into run_history.  What the store answers  *)
(* to each of the two statements is drawn where the code awaits it.        *)
(***************************************************************************)
\* Most saveTestResults calls in a run of the store.
MaxSaves == 3

SavedCases == {1, 2}
SavedStatuses == {"pass", "fail"}

\* The answers of the store: both statements succeed; the upsert fails; the
\* upsert succeeds and returns no row; the upsert succeeds and the insert
\* into run_history fails.
StoreAnswers == {"ok", "upsertError", "noRows", "historyError"}

RowsOf(table, test_case) == {k \in 1..Len(table) : table[k].test_case = test_case}

\* supabase.js:46-59: upsert(..., { onConflict: ['test_case'] })
Upsert(table, test_case, status) ==
    IF RowsOf(table, test_case) = {}
    THEN Append(table, [id |-> Len(table) + 1, test_case |-> test_case, status |-> status])
    ELSE [k \in 1..Len(table) |->
            IF table[k].test_case = test_case THEN [table[k] EXCEPT !.status = status]
            ELSE table[k]]

\* supabase.js:71-87: the history entry links the upserted row.
HistoryEntry(row, status) ==
    [test_case_id |-> row.test_case, test_result_id |-> row.id, status |-> status]

\* saveTestResults: the tables after the call, and whether it threw.
saveTestResults(test_case, status, answer) ==
    LET upserted == Upsert(testResults, test_case, status)
        row == upserted[CHOOSE k \in RowsOf(upserted, test_case) : TRUE]
    IN CASE answer = "upsertError" ->
                [threw |-> TRUE, test_results |-> testResults, run_history |-> runHistory]
         [] answer = "noRows" ->
                [threw |-> FALSE, test_results |-> upserted, run_history |-> runHistory]
         [] answer = "historyError" ->
                [threw |-> TRUE, test_results |-> upserted, run_history |-> runHistory]
         [] OTHER ->
                [threw |-> FALSE, test_results |-> upserted,
                 run_history |-> Append(runHistory, HistoryEntry(row, status))]

SaveTestResultsCall ==
    /\ Len(saveCalls) < MaxSaves
    /\ \E test_case \in SavedCases, status \in SavedStatuses, answer \in StoreAnswers :
        LET out == saveTestResults(test_case, status, answer)
        IN /\ testResults' = out.test_results
           /\ runHistory' = out.run_history
           /\ saveCalls' = Append(saveCalls,
                                  [test_case |-> test_case, status |-> status,
                                   threw |-> out.threw,
                                   before |-> <<testResults, runHistory>>,
                                   after |-> <<out.test_results, out.run_history>>])
    /\ UNCHANGED <<coreVars, callVars, pairVars>>

InitStore == CoreIdle /\ CallIdle /\ PairIdle /\ StoreIdle

SpecStore == InitStore /\ [][SaveTestResultsCall]_vars

\* The last save of test_case that returned without error, 0 if none.
LastSaved(test_case) ==
    LET done == {k \in 1..Len(saveCalls) :
                    saveCalls[k].test_case = test_case /\ ~saveCalls[k].threw}
    IN IF done = {} THEN 0 ELSE CHOOSE k \in done : \A m \in done : m <= k

\* C23: the latest-result table has at most one row per test_case, carrying
\* the status of the most recent save of it; a save that returns without
\* error has appended exactly one run-history row linked to the upserted
\* row; a save that fails leaves both tables as they were.
C23_Claim ==
    /\ \A t \in SavedCases :
          /\ Cardinality(RowsOf(testResults, t)) <= 1
          /\ \A k \in RowsOf(testResults, t) :
                LastSaved(t) # 0 /\ testResults[k].status = saveCalls[LastSaved(t)].status
    /\ \A c \in 1..Len(saveCalls) :
          LET call == saveCalls[c]
              history == call.after[2]
          IN IF call.threw THEN call.after = call.before
             ELSE /\ Len(history) = Len(call.before[2]) + 1
                  /\ SubSeq(history, 1, Len(history) - 1) = call.before[2]
                  /\ \E k \in RowsOf(call.after[1], call.test_case) :
                        history[Len(history)] = HistoryEntry(call.after[1][k], call.status)

(***************************************************************************)
(* Two requests served at once.  The handler keeps automationService and   *)
(* allResults in locals of its activation (index.js:43-44) and the browser *)
(* in a field of the instance it constructs (automation.js:5-9, 23-26);    *)
(* the handlers interleave at their awaits.  instances is the heap of      *)
(* AutomationService objects; a step records the request that launched     *)
(* the browser it acted on.                                                *)
(***************************************************************************)
\* Most steps a request of the pair runs.
MaxPairSteps == 2

Requests == {1, 2}

NewRequest == [pc |-> "start", service |-> 0, allResults |-> <<>>, response |-> <<>>]

\* Variant of ServiceFor: one AutomationService shared by all requests.
ServiceShared(heap) == 1

\* index.js:48  automationService = new AutomationService()
ServiceFor(heap) == Len(heap) + 1

\* automation.js:5-9: the fields of a new instance.
NewInstance == [browser |-> "null", launchedBy |-> 0, closedBy |-> <<>>]

\* index.js:48: the handler constructs its service.
PairConstruct(r) ==
    /\ reqs[r].pc = "start"
    /\ LET svc == ServiceFor(instances)
       IN /\ instances' = IF svc > Len(instances) THEN Append(instances, NewInstance)
                          ELSE instances
          /\ reqs' = [reqs EXCEPT ![r].pc = "init", ![r].service = svc]
    /\ UNCHANGED <<coreVars, callVars, storeVars>>

\* index.js:49 and automation.js:23-26: init launches a browser and keeps it
\* in this.browser.
PairLaunch(r) ==
    /\ reqs[r].pc = "init"
    /\ instances' = [instances EXCEPT ![reqs[r].service].browser = "open",
                                      ![reqs[r].service].launchedBy = r]
    /\ reqs' = [reqs EXCEPT ![r].pc = "run"]
    /\ UNCHANGED <<coreVars, callVars, storeVars>>

\* index.js:107-141: a test case runs on this.page of the request's service
\* and its entry is pushed to the request's allResults.
PairStep(r) ==
    /\ reqs[r].pc = "run"
    /\ Len(reqs[r].allResults) < MaxPairSteps
    /\ \E status \in {"pass", "fail"} :
        reqs' = [reqs EXCEPT ![r].allResults =
                    Append(@, [status |-> status,
                               browser |-> instances[reqs[r].service].browser,
                               launchedBy |-> instances[reqs[r].service].launchedBy])]
    /\ UNCHANGED <<instances, coreVars, callVars, storeVars>>

\* index.js:218-230: the report is built from the request's allResults.
PairReport(r) ==
    /\ reqs[r].pc = "run"
    /\ reqs' = [reqs EXCEPT ![r].pc = "finally", ![r].response = <<reqs[r].allResults>>]
    /\ UNCHANGED <<instances, coreVars, callVars, storeVars>>

\* index.js:238-248 and automation.js:39-43
PairClose(r) ==
    /\ reqs[r].pc = "finally"
    /\ instances' = [instances EXCEPT ![reqs[r].service].browser = "closed",
                                      ![reqs[r].service].closedBy = Append(@, r)]
    /\ reqs' = [reqs EXCEPT ![r].pc = "done"]
    /\ UNCHANGED <<coreVars, callVars, storeVars>>

InitPair ==
    /\ CoreIdle /\ CallIdle /\ StoreIdle
    /\ reqs = [r \in Requests |-> NewRequest]
    /\ instances = <<>>

NextPair ==
    \E r \in Requests :
        PairConstruct(r) \/ PairLaunch(r) \/ PairStep(r) \/ PairReport(r) \/ PairClose(r)

SpecPair == InitPair /\ [][NextPair]_vars

\* C24: each of two concurrent requests has its own service and browser: the
\* two never hold the same instance, every step of a request acts on the open
\* browser that request launched, a browser is closed by the request that
\* launched it and only once, and the report of a request holds the entries
\* of its own steps only.
C24_Isolated ==
    /\ \A r1, r2 \in Requests :
          (r1 # r2 /\ reqs[r1].service # 0) => reqs[r1].service # reqs[r2].service
    /\ \A r \in Requests :
          /\ \A k \in 1..Len(reqs[r].allResults) :
                reqs[r].allResults[k].browser = "open" /\ reqs[r].allResults[k].launchedBy = r
          /\ reqs[r].response # <<>> =>
                \A k \in 1..Len(reqs[r].response[1]) : reqs[r].response[1][k].launchedBy = r
    /\ \A k \in 1..Len(instances) :
          /\ Len(instances[k].closedBy) <= 1
          /\ \A c \in 1..Len(instances[k].closedBy) :
                instances[k].closedBy[c] = instances[k].launchedBy

\* C24 witness: request 1 is through with two steps and has closed its
\* browser while request 2, one step done, is running on its open browser.
C24_Witness ==
    /\ reqs[1].pc = "done" /\ Len(reqs[1].response[1]) = 2
    /\ reqs[2].pc = "run" /\ Len(reqs[2].allResults) = 1
    /\ instances[reqs[2].service].browser = "open"

ErrorMessages ==
    {"Iframe not found within 30000ms", "driver error",
     "Cannot read properties of undefined (reading 'isAlert')",
     "XPath required for mousedown action", "Element not found for mousedown action",
     "Could not get bounding box for element", "Element not found for change action",
     "Unable to detect element type", "Element not found for hover action",
     "Element not found for fileSelect action"}

SupportedTypes ==
    {"System_Navigate", "navigate", "mousedown", "change", "hover", "scroll",
     "fileSelect", "dragstart", "dragend"} \cup KeyNames

\* The messages runAssertions gives a failed assertion (utils.js:261-268).
FailedAssertionMessages ==
    {"Assertion failed: " \o m :
        m \in {"Title does not include expected", "Page does not contain expected",
               "Unsupported assertion: bogus"}}

\* The entries of a step's assertions that did not succeed.
FailedIn(k) == {j \in 1..Len(results[k].assertions) : ~results[k].assertions[j].success}

FirstFailedIn(k) == CHOOSE j \in FailedIn(k) : \A m \in FailedIn(k) : j <= m

C27_Original ==
    \A k \in 1..Len(results) :
        actions[k].type = "navigate" => results[k].status = "pass"

\* C27: the URL comparison never fails a navigate step: once the frame
\* context is resolved the action itself succeeds whether or not the URLs
\* match, the comparison shows in its message only, and the step passes
\* exactly when the frame context was resolved and every assertion holds.
C27_NavigateObservational ==
    \A k \in 1..Len(results) :
        actions[k].type = "navigate" =>
            /\ steps[k].frame = "ok" =>
                  /\ steps[k].actionSuccess
                  /\ steps[k].invoked
                  /\ steps[k].actionMessage \in
                        {"Current URL matches expected (normalized)",
                         "Current URL does not match expected"}
            /\ results[k].status = "pass" <=> (steps[k].frame = "ok" /\ steps[k].holds)
            /\ results[k].status = "pass" => results[k].message = steps[k].actionMessage

C27_Witness ==
    \E k \in 1..Len(results) :
        /\ actions[k].type = "navigate"
        /\ actions[k].inIframe
        /\ actions[k].assertions # <<>>
        /\ results[k].status = "pass"
        /\ results[k].message = "Current URL does not match expected"

\* C28: the list runAssertions returns is a prefix of the declared
\* assertions, in declared order, each entry with the outcome of its own
\* evaluation; at most one entry has success false, it is the last one, and
\* the list ends there; without a failure the list is the whole declaration.
C28_Prefix ==
    \A k \in 1..Len(results) :
        (steps[k].invoked /\ steps[k].error = "none") =>
            LET declared == actions[k].assertions
                returned == results[k].assertions
            IN /\ Len(returned) <= Len(declared)
               /\ \A j \in 1..Len(returned) :
                     /\ returned[j].type = declared[j]
                     /\ returned[j].success = AssertionSuccess(declared[j], steps[k].outs[j])
                     /\ ~returned[j].success => j = Len(returned)
               /\ FailedIn(k) = {} => Len(returned) = Len(declared)

C28_Witness ==
    \E k \in 1..Len(results) :
        /\ steps[k].invoked
        /\ Len(actions[k].assertions) = 2
        /\ Len(results[k].assertions) = 1
        /\ ~results[k].assertions[1].success
        /\ steps[k].outs[2] = "true"

\* C29 as stated: with a failed assertion the step's message is the first
\* failing assertion's, beginning with "Assertion failed: "; with none, the
\* step's status and message are the action's own.
C29_Original ==
    \A k \in 1..Len(results) :
        steps[k].invoked =>
            /\ FailedIn(k) # {} =>
                  /\ results[k].message = results[k].assertions[FirstFailedIn(k)].message
                  /\ results[k].message \in FailedAssertionMessages
            /\ FailedIn(k) = {} =>
                  /\ results[k].status = (IF steps[k].actionSuccess THEN "pass" ELSE "fail")
                  /\ results[k].message = steps[k].actionMessage

\* C29: when runAssertions returns, a failed assertion makes the step fail
\* with the first failing assertion's message, which begins with
\* "Assertion failed: " (also for an unknown kind), and without one the
\* step has the action's own status and message; when evaluating an
\* assertion raises, the step fails with the error's message and no
\* assertion results.
C29_StepMessage ==
    \A k \in 1..Len(results) :
        steps[k].invoked =>
            IF steps[k].error # "none"
            THEN /\ results[k].status = "fail"
                 /\ results[k].message = steps[k].error
                 /\ results[k].assertions = <<>>
            ELSE /\ FailedIn(k) # {} =>
                       /\ results[k].status = "fail"
                       /\ results[k].message = results[k].assertions[FirstFailedIn(k)].message
                       /\ results[k].message \in FailedAssertionMessages
                 /\ FailedIn(k) = {} =>
                       /\ results[k].status = (IF steps[k].actionSuccess THEN "pass" ELSE "fail")
                       /\ results[k].message = steps[k].actionMessage

C29_Witness ==
    \E k \in 1..Len(results) :
        /\ steps[k].invoked
        /\ steps[k].actionSuccess
        /\ actions[k].assertions = <<"bogus">>
        /\ results[k].status = "fail"
        /\ results[k].message = "Assertion failed: Unsupported assertion: bogus"

(***************************************************************************)
(* resolveSelector (automation.js:280-315).  An element descriptor holds   *)
(* the two fields the function reads.  uniqueSelector "" stands for an     *)
(* absent or empty one (both are falsy).  xpath is absent, a string (str)  *)
(* or an array of strings (list).  outs[n] is what frame.waitForSelector   *)
(* answers to the n-th call the function makes: the element ("found") or   *)
(* a rejection after the timeout ("timeout").                              *)
(***************************************************************************)
\* Longest xpath array of an element descriptor.
MaxXpaths == 2

Xpaths == {"//a", "//b"}

XpathFields ==
    {[form |-> "absent", str |-> "", list |-> <<>>]}
    \cup {[form |-> "string", str |-> x, list |-> <<>>] : x \in Xpaths \cup {""}}
    \cup {[form |-> "array", str |-> "", list |-> l] : l \in SeqsUpTo(Xpaths, MaxXpaths)}

Elements ==
    [present : {TRUE}, uniqueSelector : {"", "#a"}, xpath : XpathFields]
    \cup {[present |-> FALSE, uniqueSelector |-> "", xpath |-> [form |-> "absent", str |-> "", list |-> <<>>]]}

WaitOutcomes == [1..(MaxXpaths + 1) -> {"found", "timeout"}]

\* automation.js:297-298: the xpaths the loop goes through.
XpathArray(element) ==
    CASE element.xpath.form = "array" -> element.xpath.list
      [] element.xpath.form = "string" /\ element.xpath.str # "" -> <<element.xpath.str>>
      [] OTHER -> <<>>

\* automation.js:302
XpathSelector(xpath) == "xpath=" \o xpath

\* Variant of Candidates that tries the xpaths before the uniqueSelector.
CandidatesXpathFirst(element) ==
    [j \in 1..Len(XpathArray(element)) |-> XpathSelector(XpathArray(element)[j])]
    \o (IF element.uniqueSelector # "" THEN <<element.uniqueSelector>> ELSE <<>>)

\* The selectors in the order the function gives them to waitForSelector.
Candidates(element) ==
    (IF element.uniqueSelector # "" THEN <<element.uniqueSelector>> ELSE <<>>)
    \o [j \in 1..Len(XpathArray(element)) |-> XpathSelector(XpathArray(element)[j])]

\* The tries from the n-th candidate on; tried is a history field that is not
\* part of the value returned: the selectors given to waitForSelector so far.
RECURSIVE TryFrom(_, _, _)
TryFrom(candidates, outs, n) ==
    IF n > Len(candidates)
    THEN [selector |-> "null", found |-> FALSE, tried |-> candidates]
    ELSE IF outs[n] = "found"
    THEN [selector |-> candidates[n], found |-> TRUE, tried |-> SubSeq(candidates, 1, n)]
    ELSE TryFrom(candidates, outs, n + 1)

resolveSelector(element, outs) ==
    IF ~element.present THEN [selector |-> "null", found |-> FALSE, tried |-> <<>>]
    ELSE TryFrom(Candidates(element), outs, 1)

ResolveSelectorCall ==
    /\ ret = <<>>
    /\ ret' = <<resolveSelector(arg.element, arg.outs)>>
    /\ UNCHANGED <<arg, coreVars, storeVars, pairVars>>

InitSelector ==
    /\ CoreIdle /\ StoreIdle /\ PairIdle
    /\ arg \in [element : Elements, outs : WaitOutcomes]
    /\ ret = <<>>

SpecSelector == InitSelector /\ [][ResolveSelectorCall]_vars

\* C30: resolveSelector returns the uniqueSelector when the descriptor has
\* one and it resolves; otherwise the first xpath of the list, as an
\* "xpath=" selector, whose try resolves, a single string counting as a list
\* of one; it reports not-found exactly when the descriptor is absent or no
\* try resolves; the uniqueSelector is tried before every xpath and the
\* xpaths in list order, none after the one that resolved.
C30_Order ==
    ret # <<>> =>
        LET element == arg.element
            r == ret[1]
            hasUnique == element.present /\ element.uniqueSelector # ""
            offset == IF hasUnique THEN 1 ELSE 0
            xs == IF ~element.present \/ element.xpath.form = "absent" THEN <<>>
                  ELSE IF element.xpath.form = "string"
                  THEN (IF element.xpath.str = "" THEN <<>> ELSE <<element.xpath.str>>)
                  ELSE element.xpath.list
            uniqueResolves == hasUnique /\ arg.outs[1] = "found"
            resolving == {j \in 1..Len(xs) : arg.outs[offset + j] = "found"}
            first == CHOOSE j \in resolving : \A m \in resolving : j <= m
        IN /\ uniqueResolves =>
                 r = [selector |-> element.uniqueSelector, found |-> TRUE,
                      tried |-> <<element.uniqueSelector>>]
           /\ (~uniqueResolves /\ resolving # {}) =>
                 /\ r.found
                 /\ r.selector = "xpath=" \o xs[first]
                 /\ Len(r.tried) = offset + first
                 /\ hasUnique => r.tried[1] = element.uniqueSelector
                 /\ \A j \in 1..first : r.tried[offset + j] = "xpath=" \o xs[j]
           /\ r.found <=> (uniqueResolves \/ resolving # {})
           /\ ~r.found =>
                 /\ r.selector = "null"
                 /\ Len(r.tried) = (IF element.present THEN offset + Len(xs) ELSE 0)
                 /\ \A j \in 1..Len(xs) : r.tried[offset + j] = "xpath=" \o xs[j]

C30_Witness ==
    /\ ret # <<>>
    /\ arg.element.uniqueSelector = "#a"
    /\ arg.element.xpath.list = <<"//a", "//b">>
    /\ arg.outs = [n \in 1..(MaxXpaths + 1) |-> IF n = 3 THEN "found" ELSE "timeout"]
    /\ ret[1] = [selector |-> "xpath=//b", found |-> TRUE,
                 tried |-> <<"#a", "xpath=//a", "xpath=//b">>]

(***************************************************************************)
(* The mousedown arm (automation.js:468-501).                              *)
(***************************************************************************)
\* automation.js:472
SkipMessage == "File input: click skipped to avoid file dialog"

\* C31: a mousedown whose next action is fileSelect, or whose descriptor has
\* isAlert, is skipped: the step passes with the skip message and no mouse
\* move, press or release is sent; any other mousedown is not skipped.
C31_Claim ==
    \A k \in 1..Len(results) :
        actions[k].type = "mousedown" =>
            IF NextIsFileSelect(actions, k) \/ (actions[k].hasElement /\ actions[k].isAlert)
            THEN /\ results[k].status = "pass"
                 /\ results[k].message = SkipMessage
                 /\ ~steps[k].mouse
            ELSE results[k].message # SkipMessage

(***************************************************************************)
(* The dragstart and dragend arms (automation.js:657-759) and the page's   *)
(* document.  arg is the list of drag steps with what the browser answers  *)
(* to each; ret holds the style elements of the document (dom), the calls  *)
(* sent to the browser (events) and the number of steps done (n).  A style *)
(* element is its id ("" when it has none) and whether a dragstart         *)
(* injected it.                                                            *)
(***************************************************************************)
\* Longest list of drag steps.
MaxDragSteps == 3

NoScrollId == "__no_scroll_style__"

\* automation.js:677-685: addStyleTag is given a content and nothing else,
\* so the element it adds has no id.
InjectedStyle == [id |-> "", injected |-> TRUE]

\* What the page the test runs on may hold before the steps.
PageStyles == {<<>>, <<[id |-> NoScrollId, injected |-> FALSE]>>}

DragSteps ==
    [type : {"dragstart"}, op : {"ok", "notFound", "noBox", "throw"}]
    \cup [type : {"dragend"}, op : {"ok", "throw"}]

\* document.getElementById(id)?.remove(): the first element with the id.
RemoveById(dom, id) ==
    LET hits == {j \in 1..Len(dom) : dom[j].id = id}
    IN IF hits = {} THEN dom
       ELSE LET first == CHOOSE j \in hits : \A m \in hits : j <= m
            IN SubSeq(dom, 1, first - 1) \o SubSeq(dom, first + 1, Len(dom))

\* automation.js:657-706.  A step that does not succeed ends the run.
DragStart ==
    /\ ret.n < Len(arg)
    /\ arg[ret.n + 1].type = "dragstart"
    /\ LET op == arg[ret.n + 1].op
       IN IF op = "ok"
          THEN ret' = [dom |-> Append(ret.dom, InjectedStyle),
                       events |-> ret.events \o <<"addStyleTag", "mouseMoved", "mousePressed">>,
                       n |-> ret.n + 1]
          ELSE ret' = [ret EXCEPT !.n = Len(arg)]
    /\ UNCHANGED <<arg, coreVars, storeVars, pairVars>>

\* automation.js:708-759
DragEnd ==
    /\ ret.n < Len(arg)
    /\ arg[ret.n + 1].type = "dragend"
    /\ LET op == arg[ret.n + 1].op
       IN IF op = "ok"
          THEN ret' = [dom |-> RemoveById(ret.dom, NoScrollId),
                       events |-> ret.events \o <<"mouseMoved", "mouseReleased", "removeStyle">>,
                       n |-> ret.n + 1]
          ELSE ret' = [ret EXCEPT !.n = Len(arg)]
    /\ UNCHANGED <<arg, coreVars, storeVars, pairVars>>

InitDrag ==
    /\ CoreIdle /\ StoreIdle /\ PairIdle
    /\ arg \in SeqsUpTo(DragSteps, MaxDragSteps)
    /\ \E dom \in PageStyles : ret = [dom |-> dom, events |-> <<>>, n |-> 0]

NextDrag == DragStart \/ DragEnd

SpecDrag == InitDrag /\ [][NextDrag]_vars

\* C32: the no-scroll style of a dragstart is injected before the button is
\* pressed, and after a dragstart followed by a dragend the document holds
\* no injected style.
C32_Claim ==
    /\ \A k \in 1..Len(ret.events) :
          ret.events[k] = "mousePressed" =>
              \E j \in 1..(k - 1) : ret.events[j] = "addStyleTag" /\ k - j <= 2
    /\ \A k \in 2..ret.n :
          (arg[k - 1].type = "dragstart" /\ arg[k].type = "dragend" /\ k = ret.n) =>
              \A j \in 1..Len(ret.dom) : ~ret.dom[j].injected

(***************************************************************************)
(* The three Step Runner modes: runActionsStopOnFailure                    *)
(* (automation.js:49-98), the legacy runActions (160-199) and              *)
(* runActionsWithoutClose (204-241), on a service whose browser is open.   *)
(* arg is the mode and the action list; of an action only its wait field   *)
(* is kept: absent (undefined), null, or a number of seconds.  What        *)
(* performAction returns for a step is chosen in the step.  ret holds the  *)
(* loop index i, the status of each result, the pushes and delays in the   *)
(* order they happen (events), and whether the runner has returned.        *)
(***************************************************************************)
\* Longest action list given to a runner mode.
MaxModeActions == 2

Modes == {"runActionsStopOnFailure", "runActions", "runActionsWithoutClose"}

ModeActions ==
    {[waitKind |-> "undefined", wait |-> 0], [waitKind |-> "null", wait |-> 0],
     [waitKind |-> "number", wait |-> 0], [waitKind |-> "number", wait |-> 2]}

\* automation.js:90, 189, 233: action.wait !== undefined ? action.wait : 1,
\* then delay(finalWait * 1000); null * 1000 is 0.
DelayMs(action) ==
    CASE action.waitKind = "undefined" -> 1000
      [] action.waitKind = "null" -> 0
      [] OTHER -> action.wait * 1000

\* automation.js:73-77: only runActionsStopOnFailure breaks on a step that
\* did not succeed; the other two break in a catch that performAction,
\* which catches whatever it raises, never lets them enter.
BreaksOnFailure(mode) == mode = "runActionsStopOnFailure"

\* Variant of ClosesBrowser: no mode closes the browser.
ClosesBrowserNever(mode) == FALSE

\* automation.js:194-196: the finally block of runActions calls this.close().
ClosesBrowser(mode) == mode = "runActions"

ModeStep ==
    /\ ~ret.returned
    /\ ret.i <= Len(arg.actions)
    /\ \E success \in BOOLEAN :
        LET status == IF success THEN "pass" ELSE "fail"
            pushed == Append(ret.events, [op |-> "push", step |-> ret.i, ms |-> 0])
        IN IF ~success /\ BreaksOnFailure(arg.mode)
           THEN ret' = [i |-> ret.i, results |-> Append(ret.results, status),
                        events |-> pushed, returned |-> TRUE]
           ELSE ret' = [i |-> ret.i + 1, results |-> Append(ret.results, status),
                        events |-> Append(pushed, [op |-> "delay", step |-> ret.i,
                                                   ms |-> DelayMs(arg.actions[ret.i])]),
                        returned |-> FALSE]
    /\ UNCHANGED <<arg, browser, launches, closes, runnerVars, handlerVars, trace, pageVars,
                   storeVars, pairVars>>

ModeReturn ==
    /\ ~ret.returned
    /\ ret.i > Len(arg.actions)
    /\ ret' = [ret EXCEPT !.returned = TRUE]
    /\ IF ClosesBrowser(arg.mode) /\ browser # "null"
       THEN browser' = "closed" /\ closes' = closes + 1
       ELSE UNCHANGED <<browser, closes>>
    /\ UNCHANGED <<arg, launches, runnerVars, handlerVars, trace, pageVars, storeVars, pairVars>>

InitModes ==
    /\ browser = "open" /\ launches = 1 /\ closes = 0
    /\ actions = <<>> /\ i = 1 /\ results = <<>> /\ rpc = "idle" /\ steps = <<>>
    /\ pc = "idle" /\ payload = NoPayload /\ service = "created"
    /\ authTest = NoTest /\ fetchedIds = <<>> /\ testCasesToRun = <<>> /\ idx = 0 /\ cur = NoCur
    /\ allResults = <<>> /\ saved = <<>> /\ responses = <<>> /\ trace = <<>>
    /\ pageUrl = "about:blank" /\ localStorage = [o \in Origins |-> "null"]
    /\ StoreIdle /\ PairIdle
    /\ arg \in [mode : Modes, actions : SeqsUpTo(ModeActions, MaxModeActions)]
    /\ ret = [i |-> 1, results |-> <<>>, events |-> <<>>, returned |-> FALSE]

NextModes == ModeStep \/ ModeReturn

SpecModes == InitModes /\ [][NextModes]_vars

\* C33 as stated: after any of the three runner modes returns, the browser
\* of the service is still open.
C33_Original == ret.returned => browser = "open"

\* C33: runActionsStopOnFailure and runActionsWithoutClose return with the
\* browser open and never close it; the legacy runActions closes it, once,
\* when it returns, and not before.
C33_OnlyLegacyCloses ==
    /\ ~ret.returned => (browser = "open" /\ closes = 0)
    /\ ret.returned =>
          IF arg.mode = "runActions"
          THEN browser = "closed" /\ closes = 1
          ELSE browser = "open" /\ closes = 0

C33_Witness ==
    /\ arg.mode = "runActions"
    /\ ret.returned
    /\ Len(ret.results) = MaxModeActions
    /\ browser = "closed"

\* C34: in stop-on-failure mode a passing step's result is appended and
\* followed by a delay of action.wait seconds, one second when the action
\* has no wait; a failing step's result is appended and followed by no
\* delay and no further step.
C34_Claim ==
    arg.mode = "runActionsStopOnFailure" =>
        \A k \in 1..Len(ret.results) :
            LET action == arg.actions[k]
                pushes == {e \in 1..Len(ret.events) :
                              ret.events[e].op = "push" /\ ret.events[e].step = k}
            IN /\ pushes # {}
               /\ \A e \in pushes :
                     IF ret.results[k] = "pass"
                     THEN /\ e < Len(ret.events)
                          /\ ret.events[e + 1].op = "delay"
                          /\ ret.events[e + 1].ms =
                                (IF action.waitKind = "number" THEN action.wait ELSE 1) * 1000
                     ELSE e = Len(ret.events) /\ ret.returned /\ k = Len(ret.results)

(***************************************************************************)
(* The responses and the reports of a request, checked under Spec.         *)
(***************************************************************************)
\* C35: a request is answered exactly once on every path: nothing is sent
\* while the handler is at work, one response with status 400, 404, 200 or
\* 500 has been sent when it leaves the try block, and none is added after.
C35_OneResponse ==
    /\ Len(responses) <= 1
    /\ pc \in {"finally", "done"} <=> Len(responses) = 1
    /\ \A k \in 1..Len(responses) : responses[k].status \in {400, 404, 200, 500}

C35_Witness ==
    /\ pc = "done"
    /\ Len(responses) = 1
    /\ responses[1].status = 200
    /\ Len(allResults) = 2
    /\ closes = 1

\* The entry of the k-th test case of the loop counts its steps: at most one
\* failed, which is the last; status fail exactly then; passed is the number
\* of steps before it.
EntryCountsSteps(k) ==
    LET e == allResults[k]
        fails == {j \in 1..Len(e.results) : e.results[j].status = "fail"}
    IN /\ e.failed \in {0, 1}
       /\ e.failed = Cardinality(fails)
       /\ e.status = "fail" <=> e.failed = 1
       /\ \A j \in fails : j = Len(e.results) /\ e.passed = j - 1
       /\ fails = {} => e.passed = Len(e.results)
       /\ e.total = Len(e.results)

\* C36 as stated: every per-test report has failed in {0, 1}, status fail
\* exactly when failed = 1, passed the number of steps before the failing
\* one, and a test case with an empty action list is reported as pass with
\* total 0.
C36_Original ==
    \A k \in 1..Len(allResults) :
        /\ EntryCountsSteps(k)
        /\ testCasesToRun[k].actions = <<>> =>
              (allResults[k].status = "pass" /\ allResults[k].total = 0)

\* C36: every per-test report has failed in {0, 1}, status fail exactly
\* when failed = 1, and passed the number of steps that ran before the
\* failing one; a test case with an empty action list is reported as pass
\* with total 0 unless its navigation threw, and then as the synthetic
\* failure with total 1.
C36_Counts ==
    \A k \in 1..Len(allResults) :
        /\ EntryCountsSteps(k)
        /\ EntryMatchesRun(allResults[k])
        /\ allResults[k].testCaseId = testCasesToRun[k].id
        /\ testCasesToRun[k].actions = <<>> =>
              IF ThrownTc(testCasesToRun[k].id)
              THEN allResults[k].status = "fail" /\ allResults[k].total = 1
              ELSE allResults[k].status = "pass" /\ allResults[k].total = 0

C36_Witness ==
    /\ Len(allResults) = 2
    /\ allResults[1].passed = 1 /\ allResults[1].failed = 1 /\ allResults[1].status = "fail"
    /\ testCasesToRun[2].actions = <<>>
    /\ allResults[2].status = "pass" /\ allResults[2].total = 0

\* The ids of the test cases selected to run, in the order they were
\* fetched: the single test case, or the batch without the auth test case.
SelectedIds ==
    IF payload.testCaseId # 0 THEN <<payload.testCaseId>>
    ELSE SelectSeq(fetchedIds, LAMBDA id : id # payload.authTestCaseId)

RECURSIVE SumPassed(_)
SumPassed(entries) ==
    IF entries = <<>> THEN 0 ELSE entries[1].passed + SumPassed(Tail(entries))

RECURSIVE SumFailed(_)
SumFailed(entries) ==
    IF entries = <<>> THEN 0 ELSE entries[1].failed + SumFailed(Tail(entries))

\* C37: the report of a completed request has one testCases entry per test
\* case selected to run, in the order they were fetched; totalTestCases is
\* their number; passed and failed are the sums of the entries' counts; the
\* status is failed exactly when an entry has status fail.
C37_Report ==
    Reported =>
        LET b == responses[1].body
        IN /\ Len(b.testCases) = Len(SelectedIds)
           /\ \A k \in 1..Len(b.testCases) : b.testCases[k].testCaseId = SelectedIds[k]
           /\ b.totalTestCases = Len(SelectedIds)
           /\ b.passed = SumPassed(b.testCases)
           /\ b.failed = SumFailed(b.testCases)
           /\ b.status \in {"passed", "failed"}
           /\ b.status = "failed" <=>
                 \E k \in 1..Len(b.testCases) : b.testCases[k].status = "fail"

C37_Witness ==
    /\ Reported
    /\ payload.testCaseId = 0
    /\ Len(fetchedIds) = 2
    /\ responses[1].body.totalTestCases = 2
    /\ responses[1].body.passed = 3
    /\ responses[1].body.failed = 1
    /\ responses[1].body.status = "failed"

\* A step of the auth test case failed.
AuthFailed ==
    \E k \in 1..Len(trace) :
        trace[k].op = "step" /\ trace[k].kind = "auth" /\ trace[k].status = "fail"

\* C38: a failing step of the social-login auth test does not stop the
\* request: when the auth run has returned, failed or not, nothing has been
\* sent and the handler goes on to fetch the test cases; unless that fetch
\* or the auth navigation ends the request with a 404 or 500 before any
\* test case is selected, every selected test case is run, reported and
\* saved, the response is the 200 report, and the report tells the runs of
\* the regular test cases only.
C38_AuthIgnored ==
    /\ (pc = "authRun" /\ rpc = "returned") =>
          /\ responses = <<>> /\ allResults = <<>> /\ saved = <<>>
          /\ (ENABLED FetchSingle) \/ (ENABLED FetchBatch)
    /\ (authTest # NoTest /\ pc \in {"finally", "done"}) =>
          IF testCasesToRun = <<>> /\ responses[1].status # 200
          THEN responses[1].status \in {404, 500} /\ allResults = <<>> /\ saved = <<>>
          ELSE /\ Reported
               /\ responses[1].body = Report(allResults)
               /\ OneEntryEach(allResults)
               /\ Len(saved) = Len(allResults)
               /\ \A k \in 1..Len(allResults) :
                     /\ EntryMatchesRun(allResults[k])
                     /\ allResults[k].testCaseId # authTest.id \/ payload.testCaseId = authTest.id
                     /\ saved[k].args.test_case = allResults[k].testCaseId
                     /\ saved[k].args.status = allResults[k].status

C38_Witness ==
    /\ AuthFailed
    /\ Reported
    /\ pc = "done"
    /\ Len(allResults) = 1
    /\ allResults[1].status = "pass"
    /\ responses[1].body.status = "passed"
    /\ Len(saved) = 1

\* The saveTestResults calls made for test case t.
CallsFor(t) == {k \in 1..Len(saved) : saved[k].args.test_case = t}

\* C39: saveTestResults is called exactly once for every test case that was
\* run, after its entry is pushed and before the next test case, with the
\* status and the passed, failed, skipped and total counts of that test
\* case's entry in the report.
C39_SavedAsReported ==
    /\ pc \in {"save", "saveError"} => Len(saved) = Len(allResults) - 1
    /\ pc \in {"loop", "finally", "done"} => Len(saved) = Len(allResults)
    /\ \A k \in 1..Len(saved) :
          LET e == allResults[k]
              a == saved[k].args
          IN /\ a.test_case = e.testCaseId
             /\ a.status = e.status
             /\ a.passed = e.passed /\ a.failed = e.failed
             /\ a.skipped = e.skipped /\ a.total = e.total
             /\ CallsFor(e.testCaseId) = {k}
    /\ Reported =>
          /\ Len(responses[1].body.testCases) = Len(saved)
          /\ responses[1].body.testCases = allResults

C39_Witness ==
    /\ Reported
    /\ Len(saved) = 2
    /\ saved[1].args.status = "fail" /\ saved[1].args.passed = 1 /\ saved[1].args.total = 2
    /\ saved[2].args.status = "pass" /\ saved[2].args.total = 2
    /\ responses[1].body.testCases[1].passed = 1

(***************************************************************************)
(* Termination.  Every await of the handler and of the Step Runner is on   *)
(* an operation that returns or throws, so a request that can take a step  *)
(* eventually takes one.                                                   *)
(***************************************************************************)
SpecLive == Init /\ [][Next]_vars /\ WF_vars(Next)

\* The request is over: one response sent, no browser left open.
RequestOver ==
    /\ pc = "done"
    /\ Len(responses) = 1
    /\ browser # "open"
    /\ closes = launches

\* The loops stay within their bounds: one step per action, at most ten
\* polls in a navigate step, one iteration per selected test case.
LoopsBounded ==
    /\ Len(steps) <= Len(actions)
    /\ \A k \in 1..Len(steps) : steps[k].polls <= 10
    /\ Len(allResults) <= Len(testCasesToRun)
    /\ idx <= Len(testCasesToRun) + 1

\* C40: every request eventually has sent its one response and closed the
\* browser it launched, and on the way the step loop runs at most one
\* iteration per action, a navigate step polls at most ten times and the
\* test loop runs once per selected test case.
C40_Terminates == (<>RequestOver) /\ ([]LoopsBounded)

C40_Witness ==
    /\ RequestOver
    /\ responses[1].status = 200
    /\ Len(allResults) = 2
    /\ closes = 1
    /\ \E k \in 1..Len(steps) : steps[k].polls = 10

====
